---------------------------- MODULE Spec2Model ----------------------------
(***************************************************************************)
(* A model of cada-rs: the declaration-level differ (differ.rs), the       *)
(* expression walkers (ast_parser.rs) and the granular call/literal differ *)
(* (granular.rs).                                                          *)
(*                                                                         *)
(* Syntax trees are records tagged by "kind" (expressions), "stmt"         *)
(* (statements), "lit" (literal tokens) and "item" (top-level items).      *)
(* A HashMap<String, T> is a function from a finite set of names; its      *)
(* iteration order, which Rust leaves unspecified, is an input of every    *)
(* operator that iterates the map.                                         *)
(***************************************************************************)
EXTENDS Integers, Sequences, FiniteSets, TLC

VARIABLES
    old_ast,          \* FileASTData of the old revision (compare_asts argument)
    new_ast,          \* FileASTData of the new revision
    is_new_file,      \* compare_asts flag
    is_removed_file,  \* compare_asts flag
    changes,          \* DetailedChanges returned by compare_asts
    file_changes,     \* name -> CalledFunctionChanges of the granular pass
    pc,               \* position of the run
    old_func,         \* ItemFn handed to compare_called_functions (old side)
    new_func,         \* ItemFn handed to compare_called_functions (new side)
    result,           \* CalledFunctionChanges returned by compare_called_functions
    file,             \* the file handed to extract_file_ast: readable, parsable, its items
    ast_result,       \* Result<FileASTData, String> returned by extract_file_ast
    repo,             \* the files of the repository at the two revisions
    changed_files,    \* main: result of get_changed_files
    new_files,        \* main: result of get_new_files
    deleted_files,    \* main: result of get_deleted_files
    head,             \* the revision the working tree is checked out at
    failed,           \* the version-control commands that have failed so far
    branch_asts,      \* process_rust_files: file -> snapshot at the base revision
    current_asts,     \* process_rust_files: file -> snapshot at the target revision
    all_changes,      \* Vec<DetailedChanges> returned by process_rust_files
    outputs,          \* the output files written so far: name -> content
    exit_code         \* process exit status ("0", "1"), "running" before the process ends

vars == <<old_ast, new_ast, is_new_file, is_removed_file, changes, file_changes,
          pc, old_func, new_func, result, file, ast_result, repo, changed_files,
          new_files, deleted_files, head, failed, branch_asts, current_asts,
          all_changes, outputs, exit_code>>

astVars == <<old_ast, new_ast, is_new_file, is_removed_file, changes, file_changes>>
funcVars == <<old_func, new_func, result>>
fileVars == <<file, ast_result>>
runVars == <<repo, changed_files, new_files, deleted_files, head, failed,
             branch_asts, current_asts, all_changes, outputs, exit_code>>

-----------------------------------------------------------------------------
(* Generic helpers over sequences.                                         *)

Range(s) == { s[i] : i \in 1..Len(s) }

\* The sequences that enumerate the finite set S, each element once.
Orders(S) ==
    { s \in [1..Cardinality(S) -> S] : Range(s) = S }

\* A for-loop over `order` that pushes Entry(x) for every x that passes Keep.
FilterMap(order, Keep(_), Entry(_)) ==
    LET F[i \in 0..Len(order)] ==
            IF i = 0 THEN <<>>
            ELSE IF Keep(order[i]) THEN Append(F[i - 1], Entry(order[i]))
                 ELSE F[i - 1]
    IN  F[Len(order)]

\* Vec<String>::join(sep).
RECURSIVE JoinStr(_, _)
JoinStr(parts, sep) ==
    IF parts = <<>> THEN ""
    ELSE IF Len(parts) = 1 THEN parts[1]
    ELSE parts[1] \o sep \o JoinStr(Tail(parts), sep)

Last(s) == s[Len(s)]

-----------------------------------------------------------------------------
(* Syntax-tree constructors (syn's Expr, Stmt, Lit, Member, ItemFn).       *)

Path(segments) == [kind |-> "Path", segments |-> segments]
Ident(name) == Path(<<name>>)
ELit(l) == [kind |-> "Lit", lit |-> l]
Binary(l, op, r) == [kind |-> "Binary", left |-> l, op |-> op, right |-> r]
Call(f, args) == [kind |-> "Call", func |-> f, args |-> args]
MethodCall(recv, m, args) ==
    [kind |-> "MethodCall", receiver |-> recv, method |-> m, args |-> args]
Named(name) == [named |-> TRUE, ident |-> name]
Unnamed(i) == [named |-> FALSE, index |-> i]
Field(base, member) == [kind |-> "Field", base |-> base, member |-> member]
Macro(segments) == [kind |-> "Macro", path |-> segments]
Paren(e) == [kind |-> "Paren", expr |-> e]
\* rest is <<>> (no `..base`) or <<e>>.
Struct(segments, fields, rest) ==
    [kind |-> "Struct", path |-> segments, fields |-> fields, rest |-> rest]
Array(elems) == [kind |-> "Array", elems |-> elems]
Tuple(elems) == [kind |-> "Tuple", elems |-> elems]

\* An integer literal token: its value, the radix it is written in, its suffix.
LitInt(n, radix, suffix) == [lit |-> "Int", n |-> n, radix |-> radix, suffix |-> suffix]
\* Any other literal token: the token text and the value syn decodes from it.
LitTok(k, token, value) == [lit |-> k, token |-> token, value |-> value]

\* semi tells whether the expression statement ends with a semicolon.
StmtExpr(e, semi) == [stmt |-> "Expr", expr |-> e, semi |-> semi]
\* init is <<>> (no initializer) or <<e>>.
StmtLocal(name, init) == [stmt |-> "Local", pat |-> name, init |-> init]
StmtMacro(segments) == [stmt |-> "Macro", path |-> segments]

\* attrs holds the value expressions of the name-value attributes (#[doc = "..."]).
ItemFn(attrs, vis, ident, inputs, block, line) ==
    [item |-> "Fn", attrs |-> attrs, vis |-> vis, ident |-> ident,
     inputs |-> inputs, block |-> block, line |-> line]

MemberText(m) == IF m.named THEN m.ident ELSE ToString(m.index)

\* syn::Type: a path type (`Point`, `geo::Point`) or a reference type (`&Point`).
TypePath(segments) == [ty |-> "Path", segments |-> segments]
TypeReference(elem) == [ty |-> "Reference", elem |-> elem]

\* trait_ is "" for an inherent impl; items holds the impl items, methods
\* (ItemFn records) and others.
ItemImpl(self_ty, trait_, items, line) ==
    [item |-> "Impl", self_ty |-> self_ty, trait_ |-> trait_, items |-> items,
     line |-> line]

-----------------------------------------------------------------------------
(* format_node: quote!(#node).to_string(), the token text of a node.       *)
(* Spans (the line of a node) are not part of the text.                    *)

DigitChar == <<"0", "1", "2", "3", "4", "5", "6", "7", "8", "9",
               "a", "b", "c", "d", "e", "f">>

\* The digits of n written in the given radix.
RECURSIVE Digits(_, _)
Digits(n, radix) ==
    IF n < radix THEN DigitChar[n + 1]
    ELSE Digits(n \div radix, radix) \o DigitChar[(n % radix) + 1]

RadixPrefix(radix) ==
    CASE radix = 16 -> "0x"
      [] radix = 8 -> "0o"
      [] radix = 2 -> "0b"
      [] OTHER -> ""

\* The token of a literal as written in the source.
LitToken(l) ==
    IF l.lit = "Int" THEN RadixPrefix(l.radix) \o Digits(l.n, l.radix) \o l.suffix
    ELSE l.token

\* LitInt::base10_digits.
base10_digits(l) == Digits(l.n, 10)

RECURSIVE RenderPath(_)
RenderPath(segments) ==
    IF Len(segments) <= 1 THEN segments
    ELSE <<Head(segments), "::">> \o RenderPath(Tail(segments))

RECURSIVE RenderExpr(_), RenderExprs(_)
RenderExprs(es) ==
    IF es = <<>> THEN <<>>
    ELSE IF Len(es) = 1 THEN RenderExpr(es[1])
    ELSE RenderExpr(Head(es)) \o <<",">> \o RenderExprs(Tail(es))

RenderExpr(e) ==
    CASE e.kind = "Path" -> RenderPath(e.segments)
      [] e.kind = "Lit" -> <<LitToken(e.lit)>>
      [] e.kind = "Binary" -> RenderExpr(e.left) \o <<e.op>> \o RenderExpr(e.right)
      [] e.kind = "Call" -> RenderExpr(e.func) \o <<"(">> \o RenderExprs(e.args) \o <<")">>
      [] e.kind = "MethodCall" ->
            RenderExpr(e.receiver) \o <<".", e.method, "(">>
                \o RenderExprs(e.args) \o <<")">>
      [] e.kind = "Field" -> RenderExpr(e.base) \o <<".", MemberText(e.member)>>
      [] e.kind = "Macro" -> RenderPath(e.path) \o <<"!", "(", ")">>
      [] e.kind = "Paren" -> <<"(">> \o RenderExpr(e.expr) \o <<")">>
      [] e.kind = "Struct" ->
            RenderPath(e.path) \o <<"{">> \o RenderExprs(e.fields)
                \o (IF e.rest = <<>> THEN <<>> ELSE <<"..">> \o RenderExpr(e.rest[1]))
                \o <<"}">>
      [] e.kind = "Array" -> <<"[">> \o RenderExprs(e.elems) \o <<"]">>
      [] e.kind = "Tuple" -> <<"(">> \o RenderExprs(e.elems) \o <<",", ")">>

RenderStmt(s) ==
    CASE s.stmt = "Expr" -> RenderExpr(s.expr) \o (IF s.semi THEN <<";">> ELSE <<>>)
      [] s.stmt = "Local" ->
            <<"let", s.pat>>
                \o (IF s.init = <<>> THEN <<>> ELSE <<"=">> \o RenderExpr(s.init[1]))
                \o <<";">>
      [] s.stmt = "Macro" -> RenderPath(s.path) \o <<"!", "(", ")", ";">>

RECURSIVE RenderBlock(_)
RenderBlock(stmts) ==
    IF stmts = <<>> THEN <<>>
    ELSE RenderStmt(Head(stmts)) \o RenderBlock(Tail(stmts))

RECURSIVE RenderAttrs(_)
RenderAttrs(attrs) ==
    IF attrs = <<>> THEN <<>>
    ELSE <<"#", "[", "doc", "=">> \o RenderExpr(Head(attrs)) \o <<"]">>
            \o RenderAttrs(Tail(attrs))

ItemKeyword(item) ==
    CASE item = "Struct" -> "struct"
      [] item = "Enum" -> "enum"
      [] item = "Type" -> "type"
      [] item = "Trait" -> "trait"

\* The token stream of a node (ToTokens).
to_tokens(node) ==
    IF node.item = "Fn"
    THEN RenderAttrs(node.attrs)
            \o (IF node.vis = "" THEN <<>> ELSE <<node.vis>>)
            \o <<"fn", node.ident, "(">> \o node.inputs \o <<")", "{">>
            \o RenderBlock(node.block) \o <<"}">>
    ELSE <<ItemKeyword(node.item), node.ident>> \o node.tokens

\* quote::quote!(#node).to_string(): the tokens separated by single spaces.
format_node(node) == JoinStr(to_tokens(node), " ")

-----------------------------------------------------------------------------
(* FunctionCallVisitor (ast_parser.rs): the call labels of a body, in the  *)
(* order they are pushed.  visit_expr is the visitor's override;           *)
(* walk_expr is syn's default visit::visit_expr, which hands every direct  *)
(* sub-expression of a node back to the override.                          *)

RECURSIVE visit_expr(_), visit_exprs(_), walk_expr(_), walk_exprs(_),
          process_call(_), process_method_call(_), process_field_call(_)

process_macro(mac) ==
    IF mac.path # <<>> THEN <<"macro!" \o Last(mac.path)>> ELSE <<>>

visit_expr(expr) ==
    CASE expr.kind = "Call" -> process_call(expr)
      [] expr.kind = "MethodCall" -> process_method_call(expr)
      [] expr.kind = "Macro" -> process_macro(expr)
      [] OTHER -> walk_expr(expr)

visit_exprs(es) ==
    IF es = <<>> THEN <<>> ELSE visit_expr(Head(es)) \o visit_exprs(Tail(es))

walk_expr(expr) ==
    CASE expr.kind = "Call" -> visit_expr(expr.func) \o visit_exprs(expr.args)
      [] expr.kind = "MethodCall" -> visit_expr(expr.receiver) \o visit_exprs(expr.args)
      [] expr.kind = "Field" -> visit_expr(expr.base)
      [] expr.kind = "Binary" -> visit_expr(expr.left) \o visit_expr(expr.right)
      [] expr.kind = "Paren" -> visit_expr(expr.expr)
      [] expr.kind = "Struct" -> visit_exprs(expr.fields) \o visit_exprs(expr.rest)
      [] expr.kind = "Array" -> visit_exprs(expr.elems)
      [] expr.kind = "Tuple" -> visit_exprs(expr.elems)
      [] OTHER -> <<>>

walk_exprs(es) ==
    IF es = <<>> THEN <<>> ELSE walk_expr(Head(es)) \o walk_exprs(Tail(es))

process_call_last_segment(call) ==
    (CASE call.func.kind = "Path" -> <<Last(call.func.segments)>>
       [] call.func.kind = "Field" -> process_field_call(call.func)
       [] OTHER -> <<"complex_call">>)
    \o walk_exprs(call.args)

process_call(call) ==
    (CASE call.func.kind = "Path" ->
             IF call.func.segments # <<>>
             THEN <<JoinStr(call.func.segments, "::")>>
             ELSE <<>>
       [] call.func.kind = "Field" -> process_field_call(call.func)
       [] OTHER -> <<"complex_call">>)
    \o walk_exprs(call.args)

process_method_call_no_chain(call) ==
    (CASE call.receiver.kind = "Path" ->
             <<Last(call.receiver.segments) \o "." \o call.method>>
       [] call.receiver.kind = "Field" ->
             <<"field." \o MemberText(call.receiver.member) \o "." \o call.method>>
       [] OTHER -> <<"expr." \o call.method>>)
    \o walk_expr(call.receiver)
    \o walk_exprs(call.args)

process_method_call(call) ==
    (CASE call.receiver.kind = "Path" ->
             IF call.receiver.segments # <<>>
             THEN <<Last(call.receiver.segments) \o "." \o call.method>>
             ELSE <<call.method>>
       [] call.receiver.kind = "Field" ->
             <<"field." \o MemberText(call.receiver.member) \o "." \o call.method>>
       [] call.receiver.kind = "MethodCall" ->
             <<"chain." \o call.receiver.method \o "." \o call.method>>
       [] OTHER -> <<"expr." \o call.method>>)
    \o walk_expr(call.receiver)
    \o walk_exprs(call.args)

process_field_call(expr_field) ==
    (IF expr_field.base.kind = "Path"
     THEN IF expr_field.base.segments # <<>>
          THEN <<Last(expr_field.base.segments) \o "." \o MemberText(expr_field.member)>>
          ELSE <<>>
     ELSE <<"expr." \o MemberText(expr_field.member)>>)
    \o walk_expr(expr_field.base)

\* syn's visit_stmt for the call visitor: a statement macro goes to visit_macro,
\* never to visit_expr.
visit_stmt(s) ==
    CASE s.stmt = "Expr" -> visit_expr(s.expr)
      [] s.stmt = "Local" -> visit_exprs(s.init)
      [] s.stmt = "Macro" -> <<>>

RECURSIVE visit_block(_)
visit_block(stmts) ==
    IF stmts = <<>> THEN <<>>
    ELSE visit_stmt(Head(stmts)) \o visit_block(Tail(stmts))

\* visitor.visit_item_fn(func); visitor.calls
extract_function_calls(func) ==
    visit_exprs(func.attrs) \o visit_block(func.block)

-----------------------------------------------------------------------------
(* LiteralVisitor (ast_parser.rs): the typed literals of a body.           *)

TypedLiteral(type_name, value) == [type_name |-> type_name, value |-> value]

\* Mutation variant: the integer arm pushes the tag of the float arm.
visit_lit_int_as_float(lit) ==
    CASE lit.lit = "Str" -> <<TypedLiteral("STRING", lit.value)>>
      [] lit.lit = "Int" -> <<TypedLiteral("FLOAT", base10_digits(lit))>>
      [] lit.lit = "Float" -> <<TypedLiteral("FLOAT", lit.value)>>
      [] lit.lit = "Bool" -> <<TypedLiteral("BOOL", lit.value)>>
      [] lit.lit = "Char" -> <<TypedLiteral("CHAR", lit.value)>>
      [] lit.lit = "Byte" -> <<TypedLiteral("BYTE", lit.value)>>
      [] lit.lit = "CStr" -> <<TypedLiteral("BYTE", lit.value)>>
      [] lit.lit = "ByteStr" -> <<TypedLiteral("BYTE_STR", lit.value)>>
      [] lit.lit = "Verbatim" -> <<TypedLiteral("VERBATIM", lit.value)>>
      [] OTHER -> <<>>

visit_lit(lit) ==
    CASE lit.lit = "Str" -> <<TypedLiteral("STRING", lit.value)>>
      [] lit.lit = "Int" -> <<TypedLiteral("INT", base10_digits(lit))>>
      [] lit.lit = "Float" -> <<TypedLiteral("FLOAT", lit.value)>>
      [] lit.lit = "Bool" -> <<TypedLiteral("BOOL", lit.value)>>
      [] lit.lit = "Char" -> <<TypedLiteral("CHAR", lit.value)>>
      [] lit.lit = "Byte" -> <<TypedLiteral("BYTE", lit.value)>>
      [] lit.lit = "CStr" -> <<TypedLiteral("BYTE", lit.value)>>
      [] lit.lit = "ByteStr" -> <<TypedLiteral("BYTE_STR", lit.value)>>
      [] lit.lit = "Verbatim" -> <<TypedLiteral("VERBATIM", lit.value)>>
      [] OTHER -> <<>>

RECURSIVE lit_visit_expr(_), lit_visit_exprs(_),
          visit_expr_struct(_), visit_expr_array(_), visit_expr_tuple(_)

\* syn's default visit::visit_expr for the literal visitor.
lit_visit_expr(expr) ==
    CASE expr.kind = "Struct" -> visit_expr_struct(expr)
      [] expr.kind = "Array" -> visit_expr_array(expr)
      [] expr.kind = "Tuple" -> visit_expr_tuple(expr)
      [] expr.kind = "Lit" -> visit_lit(expr.lit)
      [] expr.kind = "Call" -> lit_visit_expr(expr.func) \o lit_visit_exprs(expr.args)
      [] expr.kind = "MethodCall" ->
            lit_visit_expr(expr.receiver) \o lit_visit_exprs(expr.args)
      [] expr.kind = "Field" -> lit_visit_expr(expr.base)
      [] expr.kind = "Binary" -> lit_visit_expr(expr.left) \o lit_visit_expr(expr.right)
      [] expr.kind = "Paren" -> lit_visit_expr(expr.expr)
      [] OTHER -> <<>>

lit_visit_exprs(es) ==
    IF es = <<>> THEN <<>> ELSE lit_visit_expr(Head(es)) \o lit_visit_exprs(Tail(es))

visit_expr_struct(expr) ==
    (IF expr.path # <<>>
     THEN <<TypedLiteral("CompositeLit:" \o Last(expr.path), "struct-literal")>>
     ELSE <<>>)
    \o lit_visit_exprs(expr.fields)

visit_expr_array(expr) ==
    <<TypedLiteral("CompositeLit:Array", "array-literal")>> \o lit_visit_exprs(expr.elems)

visit_expr_tuple(expr) ==
    <<TypedLiteral("CompositeLit:Tuple", "tuple-literal")>> \o lit_visit_exprs(expr.elems)

lit_visit_stmt(s) ==
    CASE s.stmt = "Expr" -> lit_visit_expr(s.expr)
      [] s.stmt = "Local" -> lit_visit_exprs(s.init)
      [] s.stmt = "Macro" -> <<>>

RECURSIVE lit_visit_block(_)
lit_visit_block(stmts) ==
    IF stmts = <<>> THEN <<>>
    ELSE lit_visit_stmt(Head(stmts)) \o lit_visit_block(Tail(stmts))

\* visitor.visit_item_fn(func); visitor.literals
extract_literals(func) ==
    lit_visit_exprs(func.attrs) \o lit_visit_block(func.block)

-----------------------------------------------------------------------------
(* Data types (types.rs).                                                  *)

\* FileASTData::empty(file_path).  file_content is read by no operation of the
\* differ and is left out.
FileASTData_empty(file_path) ==
    [functions |-> <<>>, types |-> <<>>, interfaces |-> <<>>, methods |-> <<>>,
     file_path |-> file_path]

\* DetailedChanges::new(module_name)
DetailedChanges_new(module_name) ==
    [module_name |-> module_name,
     added_functions |-> <<>>, modified_functions |-> <<>>, deleted_functions |-> <<>>,
     added_types |-> <<>>, modified_types |-> <<>>, deleted_types |-> <<>>,
     added_interfaces |-> <<>>, modified_interfaces |-> <<>>, deleted_interfaces |-> <<>>,
     added_methods |-> <<>>, modified_methods |-> <<>>, deleted_methods |-> <<>>]

\* get_source_location(span, filename); a span is abstracted to its start line.
get_source_location(node, filename) ==
    [start_line |-> node.line, file_name |-> filename]

-----------------------------------------------------------------------------
(* Structural differ (differ.rs).  Every find_* operator takes the         *)
(* iteration order of the HashMap it loops over.                           *)

\* Mutation variant: the containment test looks in the map being iterated.
find_added_func_elements_wrong_map(old_map, new_map, new_iter) ==
    LET Keep(name) == name \notin DOMAIN new_map
        Entry(name) == <<name, format_node(new_map[name])>>
    IN  FilterMap(new_iter, Keep, Entry)

find_added_func_elements(old_map, new_map, new_iter) ==
    LET Keep(name) == name \notin DOMAIN old_map
        Entry(name) == <<name, format_node(new_map[name])>>
    IN  FilterMap(new_iter, Keep, Entry)

\* Mutation variant: every name present on both sides is pushed, equal or not.
find_modified_func_elements_no_test(old_map, new_map, old_iter) ==
    LET Keep(name) == name \in DOMAIN new_map
        Entry(name) == <<name, format_node(old_map[name]), format_node(new_map[name])>>
    IN  FilterMap(old_iter, Keep, Entry)

find_modified_func_elements(old_map, new_map, old_iter) ==
    LET Keep(name) ==
            /\ name \in DOMAIN new_map
            /\ format_node(old_map[name]) # format_node(new_map[name])
        Entry(name) == <<name, format_node(old_map[name]), format_node(new_map[name])>>
    IN  FilterMap(old_iter, Keep, Entry)

\* Mutation variant: every old name is pushed, present in new or not.
find_deleted_func_elements_no_test(old_map, new_map, old_iter) ==
    LET Keep(name) == TRUE
        Entry(name) == <<name, format_node(old_map[name])>>
    IN  FilterMap(old_iter, Keep, Entry)

find_deleted_func_elements(old_map, new_map, old_iter) ==
    LET Keep(name) == name \notin DOMAIN new_map
        Entry(name) == <<name, format_node(old_map[name])>>
    IN  FilterMap(old_iter, Keep, Entry)

find_added_type_elements(old_map, new_map, new_iter) ==
    LET Keep(name) == name \notin DOMAIN old_map
        Entry(name) == <<name, format_node(new_map[name])>>
    IN  FilterMap(new_iter, Keep, Entry)

find_modified_type_elements(old_map, new_map, old_iter) ==
    LET Keep(name) ==
            /\ name \in DOMAIN new_map
            /\ format_node(old_map[name]) # format_node(new_map[name])
        Entry(name) == <<name, format_node(old_map[name]), format_node(new_map[name])>>
    IN  FilterMap(old_iter, Keep, Entry)

find_deleted_type_elements(old_map, new_map, old_iter) ==
    LET Keep(name) == name \notin DOMAIN new_map
        Entry(name) == <<name, format_node(old_map[name])>>
    IN  FilterMap(old_iter, Keep, Entry)

find_added_trait_elements(old_map, new_map, new_iter) ==
    LET Keep(name) == name \notin DOMAIN old_map
        Entry(name) == <<name, format_node(new_map[name])>>
    IN  FilterMap(new_iter, Keep, Entry)

find_modified_trait_elements(old_map, new_map, old_iter) ==
    LET Keep(name) ==
            /\ name \in DOMAIN new_map
            /\ format_node(old_map[name]) # format_node(new_map[name])
        Entry(name) == <<name, format_node(old_map[name]), format_node(new_map[name])>>
    IN  FilterMap(old_iter, Keep, Entry)

find_deleted_trait_elements(old_map, new_map, old_iter) ==
    LET Keep(name) == name \notin DOMAIN new_map
        Entry(name) == <<name, format_node(old_map[name])>>
    IN  FilterMap(old_iter, Keep, Entry)

\* A methods map holds pairs <<impl block, detached fn>>; only the fn is rendered.
find_added_method_elements(old_map, new_map, new_iter) ==
    LET Keep(name) == name \notin DOMAIN old_map
        Entry(name) == <<name, format_node(new_map[name][2])>>
    IN  FilterMap(new_iter, Keep, Entry)

\* Mutation variant: the enclosing impl block is compared with the method.
find_modified_method_elements_with_impl(old_map, new_map, old_iter) ==
    LET Keep(name) ==
            /\ name \in DOMAIN new_map
            /\ old_map[name] # new_map[name]
        Entry(name) ==
            <<name, format_node(old_map[name][2]), format_node(new_map[name][2])>>
    IN  FilterMap(old_iter, Keep, Entry)

find_modified_method_elements(old_map, new_map, old_iter) ==
    LET Keep(name) ==
            /\ name \in DOMAIN new_map
            /\ format_node(old_map[name][2]) # format_node(new_map[name][2])
        Entry(name) ==
            <<name, format_node(old_map[name][2]), format_node(new_map[name][2])>>
    IN  FilterMap(old_iter, Keep, Entry)

find_deleted_method_elements(old_map, new_map, old_iter) ==
    LET Keep(name) == name \notin DOMAIN new_map
        Entry(name) == <<name, format_node(old_map[name][2])>>
    IN  FilterMap(old_iter, Keep, Entry)

\* The body of compare_asts for a new file: every element of new is added.
new_file_changes(changes0, new_ast0, iter) ==
    LET AllOf(map, order) ==
            LET Keep(name) == TRUE
                Entry(name) == <<name, format_node(map[name])>>
            IN  FilterMap(order, Keep, Entry)
        AllMethodsOf(map, order) ==
            LET Keep(name) == TRUE
                Entry(name) == <<name, format_node(map[name][2])>>
            IN  FilterMap(order, Keep, Entry)
    IN  [changes0 EXCEPT
            !.added_functions = AllOf(new_ast0.functions, iter.new.functions),
            !.added_types = AllOf(new_ast0.types, iter.new.types),
            !.added_interfaces = AllOf(new_ast0.interfaces, iter.new.interfaces),
            !.added_methods = AllMethodsOf(new_ast0.methods, iter.new.methods)]

\* The body of compare_asts for a removed file: every element of old is deleted.
removed_file_changes(changes0, old_ast0, iter) ==
    LET AllOf(map, order) ==
            LET Keep(name) == TRUE
                Entry(name) == <<name, format_node(map[name])>>
            IN  FilterMap(order, Keep, Entry)
        AllMethodsOf(map, order) ==
            LET Keep(name) == TRUE
                Entry(name) == <<name, format_node(map[name][2])>>
            IN  FilterMap(order, Keep, Entry)
    IN  [changes0 EXCEPT
            !.deleted_functions = AllOf(old_ast0.functions, iter.old.functions),
            !.deleted_types = AllOf(old_ast0.types, iter.old.types),
            !.deleted_interfaces = AllOf(old_ast0.interfaces, iter.old.interfaces),
            !.deleted_methods = AllMethodsOf(old_ast0.methods, iter.old.methods)]

\* Mutation variant: the find_deleted_* calls get their two maps exchanged.
normal_changes_deleted_swapped(changes0, o, n, iter) ==
    [changes0 EXCEPT
        !.added_functions = find_added_func_elements(o.functions, n.functions, iter.new.functions),
        !.modified_functions = find_modified_func_elements(o.functions, n.functions, iter.old.functions),
        !.deleted_functions = find_deleted_func_elements(n.functions, o.functions, iter.new.functions),
        !.added_types = find_added_type_elements(o.types, n.types, iter.new.types),
        !.modified_types = find_modified_type_elements(o.types, n.types, iter.old.types),
        !.deleted_types = find_deleted_type_elements(n.types, o.types, iter.new.types),
        !.added_interfaces = find_added_trait_elements(o.interfaces, n.interfaces, iter.new.interfaces),
        !.modified_interfaces = find_modified_trait_elements(o.interfaces, n.interfaces, iter.old.interfaces),
        !.deleted_interfaces = find_deleted_trait_elements(n.interfaces, o.interfaces, iter.new.interfaces),
        !.added_methods = find_added_method_elements(o.methods, n.methods, iter.new.methods),
        !.modified_methods = find_modified_method_elements(o.methods, n.methods, iter.old.methods),
        !.deleted_methods = find_deleted_method_elements(n.methods, o.methods, iter.new.methods)]

\* The body of compare_asts for a file present in both versions.
normal_changes(changes0, o, n, iter) ==
    [changes0 EXCEPT
        !.added_functions = find_added_func_elements(o.functions, n.functions, iter.new.functions),
        !.modified_functions = find_modified_func_elements(o.functions, n.functions, iter.old.functions),
        !.deleted_functions = find_deleted_func_elements(o.functions, n.functions, iter.old.functions),
        !.added_types = find_added_type_elements(o.types, n.types, iter.new.types),
        !.modified_types = find_modified_type_elements(o.types, n.types, iter.old.types),
        !.deleted_types = find_deleted_type_elements(o.types, n.types, iter.old.types),
        !.added_interfaces = find_added_trait_elements(o.interfaces, n.interfaces, iter.new.interfaces),
        !.modified_interfaces = find_modified_trait_elements(o.interfaces, n.interfaces, iter.old.interfaces),
        !.deleted_interfaces = find_deleted_trait_elements(o.interfaces, n.interfaces, iter.old.interfaces),
        !.added_methods = find_added_method_elements(o.methods, n.methods, iter.new.methods),
        !.modified_methods = find_modified_method_elements(o.methods, n.methods, iter.old.methods),
        !.deleted_methods = find_deleted_method_elements(o.methods, n.methods, iter.old.methods)]

\* Mutation variant: the new-file early return is missing.
compare_asts_no_new_branch(o, n, package_name, file_path, new_file, removed_file, iter) ==
    LET changes0 == DetailedChanges_new(file_path)
    IN  IF removed_file THEN removed_file_changes(changes0, o, iter)
        ELSE normal_changes(changes0, o, n, iter)

\* Mutation variant: the removed-file early return is missing.
compare_asts_no_removed_branch(o, n, package_name, file_path, new_file, removed_file, iter) ==
    LET changes0 == DetailedChanges_new(file_path)
    IN  IF new_file THEN new_file_changes(changes0, n, iter)
        ELSE normal_changes(changes0, o, n, iter)

\* Mutation variant: the removed-file test comes before the new-file test.
compare_asts_removed_first(o, n, package_name, file_path, new_file, removed_file, iter) ==
    LET changes0 == DetailedChanges_new(file_path)
    IN  IF removed_file THEN removed_file_changes(changes0, o, iter)
        ELSE IF new_file THEN new_file_changes(changes0, n, iter)
        ELSE normal_changes(changes0, o, n, iter)

\* iter.old / iter.new give the iteration order of each map of the two snapshots.
compare_asts(o, n, package_name, file_path, new_file, removed_file, iter) ==
    LET changes0 == DetailedChanges_new(file_path)
    IN  IF new_file THEN new_file_changes(changes0, n, iter)
        ELSE IF removed_file THEN removed_file_changes(changes0, o, iter)
        ELSE normal_changes(changes0, o, n, iter)

\* The iteration orders the four maps of a snapshot can have.
MapOrders(ast) ==
    [functions : Orders(DOMAIN ast.functions), types : Orders(DOMAIN ast.types),
     interfaces : Orders(DOMAIN ast.interfaces), methods : Orders(DOMAIN ast.methods)]

IterOrders(o, n) == [old : MapOrders(o), new : MapOrders(n)]

-----------------------------------------------------------------------------
(* Granular differ (granular.rs).                                          *)

\* Mutation variant: a string is dropped only when it equals its predecessor.
RECURSIVE remove_adjacent_duplicates(_)
remove_adjacent_duplicates(strings) ==
    IF Len(strings) <= 1 THEN strings
    ELSE IF strings[1] = strings[2] THEN remove_adjacent_duplicates(Tail(strings))
    ELSE <<strings[1]>> \o remove_adjacent_duplicates(Tail(strings))

remove_duplicates(strings) ==
    LET F[i \in 0..Len(strings)] ==
            IF i = 0 THEN [seen |-> {}, result |-> <<>>]
            ELSE IF strings[i] \notin F[i - 1].seen
                 THEN [seen |-> F[i - 1].seen \cup {strings[i]},
                       result |-> Append(F[i - 1].result, strings[i])]
                 ELSE F[i - 1]
    IN  F[Len(strings)].result

\* Mutation variant: a literal is matched on its type_name alone.
literals_not_in_by_type(lits, others) ==
    LET Keep(lit) == ~ \E i \in 1..Len(others) : others[i].type_name = lit.type_name
        Entry(lit) == lit
    IN  FilterMap(lits, Keep, Entry)

\* Mutation variant: the literals are deduplicated like the call labels.
literals_not_in_dedup(lits, others) ==
    LET Keep(lit) ==
            ~ \E i \in 1..Len(others) :
                others[i].type_name = lit.type_name /\ others[i].value = lit.value
        Entry(lit) == lit
    IN  remove_duplicates(FilterMap(lits, Keep, Entry))

\* for lit in lits { if !others.iter().any(|o| same type_name and value) { push } }
literals_not_in(lits, others) ==
    LET Keep(lit) ==
            ~ \E i \in 1..Len(others) :
                others[i].type_name = lit.type_name /\ others[i].value = lit.value
        Entry(lit) == lit
    IN  FilterMap(lits, Keep, Entry)

\* Mutation variant: the test against the other side is missing.
calls_not_in_unfiltered(calls, others) == calls

\* for call in calls { if !others.contains(call) { push } }
calls_not_in(calls, others) ==
    LET Keep(call) == call \notin Range(others)
        Entry(call) == call
    IN  FilterMap(calls, Keep, Entry)

compare_called_functions(old_fn, new_fn, o, n) ==
    LET old_calls == extract_function_calls(old_fn)
        new_calls == extract_function_calls(new_fn)
        added_functions == calls_not_in(new_calls, old_calls)
        removed_functions == calls_not_in(old_calls, new_calls)
        old_literals == extract_literals(old_fn)
        new_literals == extract_literals(new_fn)
    IN  [added_functions |-> remove_duplicates(added_functions),
         removed_functions |-> remove_duplicates(removed_functions),
         added_literals |-> literals_not_in(new_literals, old_literals),
         removed_literals |-> literals_not_in(old_literals, new_literals),
         old_function_src_loc |-> get_source_location(old_fn, o.file_path),
         new_function_src_loc |-> get_source_location(new_fn, n.file_path)]

granular_file_changes_skip_noop(o, n) ==
    LET HasDelta(d) ==
            \/ d.added_functions # <<>> \/ d.removed_functions # <<>>
            \/ d.added_literals # <<>> \/ d.removed_literals # <<>>
        funcs == { name \in DOMAIN o.functions \cap DOMAIN n.functions :
                     /\ format_node(o.functions[name]) # format_node(n.functions[name])
                     /\ HasDelta(compare_called_functions(o.functions[name],
                                                          n.functions[name], o, n)) }
    IN  [name \in funcs |->
            compare_called_functions(o.functions[name], n.functions[name], o, n)]

granular_file_changes_no_test(o, n) ==
    LET funcs == DOMAIN o.functions \cap DOMAIN n.functions
        meths == DOMAIN o.methods \cap DOMAIN n.methods
    IN  [name \in funcs \cup meths |->
            IF name \in meths
            THEN compare_called_functions(o.methods[name][2], n.methods[name][2], o, n)
            ELSE compare_called_functions(o.functions[name], n.functions[name], o, n)]

\* One iteration of the per-file loop of get_granular_change_for_functions:
\* the file_changes map of the two snapshots of a file.
granular_file_changes(o, n) ==
    LET funcs == { name \in DOMAIN o.functions \cap DOMAIN n.functions :
                     format_node(o.functions[name]) # format_node(n.functions[name]) }
        meths == { name \in DOMAIN o.methods \cap DOMAIN n.methods :
                     format_node(o.methods[name][2]) # format_node(n.methods[name][2]) }
    IN  [name \in funcs \cup meths |->
            IF name \in meths
            THEN compare_called_functions(o.methods[name][2], n.methods[name][2], o, n)
            ELSE compare_called_functions(o.functions[name], n.functions[name], o, n)]

-----------------------------------------------------------------------------
(* Inputs of the structural differ: the snapshots of one file.             *)

\* At most this many declarations in one snapshot.
MaxDecls == 2

FilePath == "src/lib.rs"

AddBody == Binary(Ident("a"), "+", Ident("b"))
AddBodyPlus1 == Binary(AddBody, "+", ELit(LitInt(1, 10, "")))
SubBody == Binary(Ident("a"), "-", Ident("b"))

FnAdd(body, line) == ItemFn(<<>>, "", "add", <<"a", "b">>, <<StmtExpr(body, FALSE)>>, line)
FnSub(block, line) == ItemFn(<<>>, "pub", "sub", <<"a", "b">>, block, line)
FnNorm(body, line) == ItemFn(<<>>, "pub", "norm", <<"self">>, <<StmtExpr(body, FALSE)>>, line)

ImplPoint(trait, method, line) == ItemImpl(TypePath(<<"Point">>), trait, <<method>>, line)

NormBody == Field(Ident("self"), Named("x"))
NormBodyAbs == MethodCall(NormBody, "abs", <<>>)

\* The declarations a snapshot is made of: category, name and node.
DeclUniverse ==
    { [cat |-> "functions", name |-> "add", node |-> FnAdd(AddBody, 1)],
      [cat |-> "functions", name |-> "add", node |-> FnAdd(AddBody, 4)],
      [cat |-> "functions", name |-> "add", node |-> FnAdd(AddBodyPlus1, 1)],
      [cat |-> "functions", name |-> "sub",
       node |-> FnSub(<<StmtExpr(Call(Ident("log"), <<Ident("b")>>), TRUE),
                        StmtExpr(SubBody, FALSE)>>, 7)],
      [cat |-> "functions", name |-> "sub",
       node |-> FnSub(<<StmtExpr(Call(Ident("log"), <<Ident("a")>>), TRUE),
                        StmtExpr(SubBody, FALSE)>>, 8)],
      [cat |-> "types", name |-> "Point",
       node |-> [item |-> "Struct", ident |-> "Point", tokens |-> <<"{", "x", "}">>, line |-> 10]],
      [cat |-> "types", name |-> "Point",
       node |-> [item |-> "Enum", ident |-> "Point", tokens |-> <<"{", "X", "}">>, line |-> 10]],
      [cat |-> "interfaces", name |-> "Shape",
       node |-> [item |-> "Trait", ident |-> "Shape", tokens |-> <<"{", "}">>, line |-> 12]],
      [cat |-> "interfaces", name |-> "Shape",
       node |-> [item |-> "Trait", ident |-> "Shape", tokens |-> <<"{", "area", "}">>, line |-> 12]],
      [cat |-> "methods", name |-> "Point.norm",
       node |-> <<ImplPoint("", FnNorm(NormBody, 15), 14), FnNorm(NormBody, 15)>>],
      [cat |-> "methods", name |-> "Point.norm",
       node |-> <<ImplPoint("Shape", FnNorm(NormBody, 15), 14), FnNorm(NormBody, 15)>>],
      [cat |-> "methods", name |-> "Point.norm",
       node |-> <<ImplPoint("", FnNorm(NormBodyAbs, 15), 14), FnNorm(NormBodyAbs, 15)>>] }

\* The map of one category made of the declarations D (one per name).
MapOf(D, cat) ==
    LET ds == { d \in D : d.cat = cat }
    IN  [name \in { d.name : d \in ds } |-> (CHOOSE d \in ds : d.name = name).node]

SnapshotOf(D) ==
    [functions |-> MapOf(D, "functions"), types |-> MapOf(D, "types"),
     interfaces |-> MapOf(D, "interfaces"), methods |-> MapOf(D, "methods"),
     file_path |-> FilePath]

\* Every snapshot of at most MaxDecls declarations, each name declared once per
\* category (a HashMap holds one value per key).
Snapshots ==
    { SnapshotOf(D) :
        D \in { D \in SUBSET DeclUniverse :
                  /\ Cardinality(D) <= MaxDecls
                  /\ \A d1, d2 \in D :
                        (d1.cat = d2.cat /\ d1.name = d2.name) => d1 = d2 } }

NoFunc == [item |-> "None"]
NoResult == [item |-> "None"]

\* No file is being extracted.
NoFile ==
    /\ file = [item |-> "None"]
    /\ ast_result = [item |-> "None"]

\* No run of main is in progress.
NoRun ==
    /\ repo = [item |-> "None"]
    /\ changed_files = <<>>
    /\ new_files = <<>>
    /\ deleted_files = <<>>
    /\ head = "none"
    /\ failed = {}
    /\ branch_asts = <<>>
    /\ current_asts = <<>>
    /\ all_changes = <<>>
    /\ outputs = <<>>
    /\ exit_code = "running"

-----------------------------------------------------------------------------
(* The run on one file: compare_asts, then the granular pass.              *)

Init ==
    /\ old_ast \in Snapshots
    /\ new_ast \in Snapshots
    /\ is_new_file \in BOOLEAN
    /\ is_removed_file \in BOOLEAN
    /\ changes = DetailedChanges_new(FilePath)
    /\ file_changes = <<>>
    /\ pc = "start"
    /\ old_func = NoFunc
    /\ new_func = NoFunc
    /\ result = NoResult
    /\ NoFile
    /\ NoRun

\* process_rust_files, step 3, for one file: the call of compare_asts.
CompareAsts ==
    /\ pc = "start"
    /\ \E iter \in IterOrders(old_ast, new_ast) :
          changes' = compare_asts(old_ast, new_ast, "pkg", FilePath,
                                  is_new_file, is_removed_file, iter)
    /\ pc' = "compared"
    /\ UNCHANGED <<old_ast, new_ast, is_new_file, is_removed_file, file_changes>>
    /\ UNCHANGED funcVars
    /\ UNCHANGED <<fileVars, runVars>>

\* get_granular_change_for_functions, step 3, for one file.
GranularChanges ==
    /\ pc = "compared"
    /\ file_changes' = granular_file_changes(old_ast, new_ast)
    /\ pc' = "done"
    /\ UNCHANGED <<old_ast, new_ast, is_new_file, is_removed_file, changes>>
    /\ UNCHANGED funcVars
    /\ UNCHANGED <<fileVars, runVars>>

Next == CompareAsts \/ GranularChanges

Spec == Init /\ [][Next]_vars

-----------------------------------------------------------------------------
(* compare_called_functions on its own: two versions of one function whose *)
(* bodies are statement lists.                                             *)

\* At most this many statements in a body.
MaxStmts == 3

\* f();   g();   h(1);   let x = 2;
StmtKinds ==
    { StmtExpr(Call(Ident("f"), <<>>), TRUE),
      StmtExpr(Call(Ident("g"), <<>>), TRUE),
      StmtExpr(Call(Ident("h"), <<ELit(LitInt(1, 10, ""))>>), TRUE),
      StmtLocal("x", <<ELit(LitInt(2, 10, ""))>>) }

Blocks == UNION { [1..n -> StmtKinds] : n \in 0..MaxStmts }

InitDelta ==
    /\ old_func \in { ItemFn(<<>>, "", "run", <<>>, b, 1) : b \in Blocks }
    /\ new_func \in { ItemFn(<<>>, "", "run", <<>>, b, 3) : b \in Blocks }
    /\ result = NoResult
    /\ pc = "start"
    /\ old_ast = FileASTData_empty(FilePath)
    /\ new_ast = FileASTData_empty(FilePath)
    /\ is_new_file = FALSE
    /\ is_removed_file = FALSE
    /\ changes = DetailedChanges_new(FilePath)
    /\ file_changes = <<>>
    /\ NoFile
    /\ NoRun

\* One call of compare_called_functions.
CompareCalledFunctions ==
    /\ pc = "start"
    /\ result' = compare_called_functions(old_func, new_func, old_ast, new_ast)
    /\ pc' = "done"
    /\ UNCHANGED <<old_func, new_func>>
    /\ UNCHANGED astVars
    /\ UNCHANGED <<fileVars, runVars>>

NextDelta == CompareCalledFunctions

SpecDelta == InitDelta /\ [][NextDelta]_vars

-----------------------------------------------------------------------------
(* Properties of the structural differ (specification Spec).               *)

Categories == {"functions", "types", "interfaces", "methods"}

AddedOf(c, cat) == c["added_" \o cat]
ModifiedOf(c, cat) == c["modified_" \o cat]
DeletedOf(c, cat) == c["deleted_" \o cat]

\* The names listed by a list of entries, in list order.
NamesOf(list) == [i \in 1..Len(list) |-> list[i][1]]

NoDuplicates(seq) == \A i, j \in 1..Len(seq) : seq[i] = seq[j] => i = j

Keys(ast, cat) == DOMAIN ast[cat]

\* The canonical rendering of the declaration `name` of a snapshot.
Rendered(ast, cat, name) ==
    IF cat = "methods" THEN format_node(ast.methods[name][2])
    ELSE format_node(ast[cat][name])

Compared == pc \in {"compared", "done"}
BothFlagsFalse == ~is_new_file /\ ~is_removed_file

AllListsEmpty(c) ==
    \A cat \in Categories :
        AddedOf(c, cat) = <<>> /\ ModifiedOf(c, cat) = <<>> /\ DeletedOf(c, cat) = <<>>

\* C1: comparing a snapshot with itself, both flags false, reports nothing:
\* the added, modified and deleted lists of all four categories are empty.
C1_Idempotence ==
    (Compared /\ BothFlagsFalse /\ old_ast = new_ast) => AllListsEmpty(changes)

C1_Witness ==
    /\ pc = "compared" /\ BothFlagsFalse /\ old_ast = new_ast
    /\ Cardinality(Keys(old_ast, "functions")) = 2

\* C2: with both flags false, per category, added = keys(new) \ keys(old) with
\* the new rendering, deleted = keys(old) \ keys(new) with the old rendering,
\* modified = the common names whose renderings differ, with (old, new) renderings.
C2_ExactDiff ==
    (Compared /\ BothFlagsFalse) =>
        \A cat \in Categories :
            /\ Range(AddedOf(changes, cat)) =
                  { <<n, Rendered(new_ast, cat, n)>> :
                        n \in Keys(new_ast, cat) \ Keys(old_ast, cat) }
            /\ Range(DeletedOf(changes, cat)) =
                  { <<n, Rendered(old_ast, cat, n)>> :
                        n \in Keys(old_ast, cat) \ Keys(new_ast, cat) }
            /\ Range(ModifiedOf(changes, cat)) =
                  { <<n, Rendered(old_ast, cat, n), Rendered(new_ast, cat, n)>> :
                        n \in { m \in Keys(old_ast, cat) \cap Keys(new_ast, cat) :
                                  Rendered(old_ast, cat, m) # Rendered(new_ast, cat, m) } }

C2_Witness ==
    /\ pc = "compared" /\ BothFlagsFalse
    /\ AddedOf(changes, "functions") # <<>>
    /\ ModifiedOf(changes, "functions") # <<>>
    /\ DeletedOf(changes, "types") # <<>>

\* C3: whatever the flags, a name is in at most one of the added, modified and
\* deleted lists of a category, and at most once in that list.
C3_OneListPerName ==
    Compared =>
        \A cat \in Categories :
            NoDuplicates(NamesOf(AddedOf(changes, cat))
                            \o NamesOf(ModifiedOf(changes, cat))
                            \o NamesOf(DeletedOf(changes, cat)))

C3_Witness ==
    /\ pc = "compared" /\ BothFlagsFalse
    /\ ModifiedOf(changes, "functions") # <<>>
    /\ DeletedOf(changes, "functions") # <<>>

\* One iteration order of each map of a snapshot.
SomeOrders(ast) ==
    [functions |-> CHOOSE s \in Orders(DOMAIN ast.functions) : TRUE,
     types |-> CHOOSE s \in Orders(DOMAIN ast.types) : TRUE,
     interfaces |-> CHOOSE s \in Orders(DOMAIN ast.interfaces) : TRUE,
     methods |-> CHOOSE s \in Orders(DOMAIN ast.methods) : TRUE]

\* The report of the reverse comparison (old and new exchanged), both flags false.
Reverse ==
    compare_asts(new_ast, old_ast, "pkg", FilePath, FALSE, FALSE,
                 [old |-> SomeOrders(new_ast), new |-> SomeOrders(old_ast)])

\* C4: with both flags false, the reverse comparison has the same modified names
\* (old and new code exchanged), its deleted entries are the added entries of
\* this comparison and its added entries the deleted ones.
C4_Symmetry ==
    (Compared /\ BothFlagsFalse) =>
        LET rev == Reverse
        IN  \A cat \in Categories :
                /\ Range(NamesOf(ModifiedOf(changes, cat)))
                      = Range(NamesOf(ModifiedOf(rev, cat)))
                /\ { <<e[1], e[3], e[2]>> : e \in Range(ModifiedOf(changes, cat)) }
                      = Range(ModifiedOf(rev, cat))
                /\ Range(AddedOf(changes, cat)) = Range(DeletedOf(rev, cat))
                /\ Range(DeletedOf(changes, cat)) = Range(AddedOf(rev, cat))

C4_Witness ==
    /\ pc = "compared" /\ BothFlagsFalse
    /\ ModifiedOf(changes, "methods") # <<>>
    /\ AddedOf(changes, "types") # <<>>
    /\ DeletedOf(changes, "functions") # <<>>

\* Every text held by the entries of a report: names and codes.
TextsOf(c) ==
    UNION { Range(e) : e \in UNION { Range(AddedOf(c, cat)) \cup Range(ModifiedOf(c, cat))
                                        \cup Range(DeletedOf(c, cat)) : cat \in Categories } }

\* The names and renderings of every declaration of a snapshot.
SnapshotTexts(ast) ==
    UNION { UNION { { n, Rendered(ast, cat, n) } : n \in Keys(ast, cat) } :
              cat \in Categories }

\* Every declaration of `ast` is in the `Of` list of its category, and nothing else.
ListsAll(Of(_, _), ast) ==
    \A cat \in Categories :
        Range(Of(changes, cat)) = { <<n, Rendered(ast, cat, n)>> : n \in Keys(ast, cat) }

NoneListed(Of(_, _)) == \A cat \in Categories : Of(changes, cat) = <<>>

\* C5: with is_new_file, every declaration of new is added, nothing is modified
\* or deleted, and no name or code that only the old snapshot holds is reported.
C5_NewFileOverride ==
    (Compared /\ is_new_file) =>
        /\ ListsAll(AddedOf, new_ast)
        /\ NoneListed(ModifiedOf)
        /\ NoneListed(DeletedOf)
        /\ TextsOf(changes) \cap (SnapshotTexts(old_ast) \ SnapshotTexts(new_ast)) = {}

C5_Witness ==
    /\ pc = "compared" /\ is_new_file
    /\ Keys(new_ast, "functions") # {}
    /\ Keys(old_ast, "functions") \cap Keys(new_ast, "functions") # {}
    /\ SnapshotTexts(old_ast) \ SnapshotTexts(new_ast) # {}

\* C6 as stated: with is_removed_file, whatever is_new_file, every declaration
\* of old is deleted and nothing of new is reported.
C6_Original ==
    (Compared /\ is_removed_file) =>
        /\ ListsAll(DeletedOf, old_ast)
        /\ NoneListed(AddedOf)
        /\ NoneListed(ModifiedOf)
        /\ TextsOf(changes) \cap (SnapshotTexts(new_ast) \ SnapshotTexts(old_ast)) = {}

\* C6 (amended): with is_removed_file and without is_new_file, every declaration
\* of old is deleted, nothing is added or modified, and no name or code that
\* only the new snapshot holds is reported.
C6_RemovedFileOverride ==
    (Compared /\ is_removed_file /\ ~is_new_file) =>
        /\ ListsAll(DeletedOf, old_ast)
        /\ NoneListed(AddedOf)
        /\ NoneListed(ModifiedOf)
        /\ TextsOf(changes) \cap (SnapshotTexts(new_ast) \ SnapshotTexts(old_ast)) = {}

C6_Witness ==
    /\ pc = "compared" /\ is_removed_file /\ ~is_new_file
    /\ Keys(old_ast, "functions") # {}
    /\ Keys(old_ast, "functions") \cap Keys(new_ast, "functions") # {}
    /\ SnapshotTexts(new_ast) \ SnapshotTexts(old_ast) # {}

\* C10: old `fn add(a, b) { a + b }`, new `fn add(a, b) { a + b + 1 }`, a file of
\* both revisions: add is a modified function, neither added nor deleted, and
\* its delta is added_literals = [INT "1"] with no removed literal and no call.
AddScenario ==
    /\ BothFlagsFalse
    /\ "add" \in Keys(old_ast, "functions") \cap Keys(new_ast, "functions")
    /\ old_ast.functions["add"].block = <<StmtExpr(AddBody, FALSE)>>
    /\ new_ast.functions["add"].block = <<StmtExpr(AddBodyPlus1, FALSE)>>

C10_AddScenario ==
    /\ (Compared /\ AddScenario) =>
          /\ "add" \in Range(NamesOf(changes.modified_functions))
          /\ "add" \notin Range(NamesOf(changes.added_functions))
          /\ "add" \notin Range(NamesOf(changes.deleted_functions))
    /\ (pc = "done" /\ AddScenario) =>
          /\ "add" \in DOMAIN file_changes
          /\ file_changes["add"].added_literals = <<TypedLiteral("INT", "1")>>
          /\ file_changes["add"].removed_literals = <<>>
          /\ file_changes["add"].added_functions = <<>>
          /\ file_changes["add"].removed_functions = <<>>

C10_Witness == pc = "done" /\ AddScenario /\ "add" \in DOMAIN file_changes

-----------------------------------------------------------------------------
(* Properties of compare_called_functions (specification SpecDelta).       *)

old_calls == extract_function_calls(old_func)
new_calls == extract_function_calls(new_func)
old_literals == extract_literals(old_func)
new_literals == extract_literals(new_func)

\* The index of the first occurrence of x in seq.
FirstIndex(seq, x) == CHOOSE i \in 1..Len(seq) : seq[i] = x /\ \A j \in 1..(i - 1) : seq[j] # x

\* out lists the members of S once each, in the order of their first occurrence in src.
FirstOccurrences(out, src, S) ==
    /\ Range(out) = S
    /\ NoDuplicates(out)
    /\ \A i, j \in 1..Len(out) : i < j => FirstIndex(src, out[i]) < FirstIndex(src, out[j])

\* The number of occurrences of x in seq.
Count(seq, x) == Cardinality({ i \in 1..Len(seq) : seq[i] = x })

Int1 == TypedLiteral("INT", "1")
Int2 == TypedLiteral("INT", "2")

\* C7: added_functions lists the labels of new that old lacks, once each, in the
\* order of first occurrence in new; removed_functions likewise from old.  Old
\* calls [f, g, f] and new calls [g, h] give added = [h] and removed = [f].
C7_CallDelta ==
    pc = "done" =>
        /\ FirstOccurrences(result.added_functions, new_calls,
                            Range(new_calls) \ Range(old_calls))
        /\ FirstOccurrences(result.removed_functions, old_calls,
                            Range(old_calls) \ Range(new_calls))
        /\ (old_calls = <<"f", "g", "f">> /\ new_calls = <<"g", "h">>) =>
              (result.added_functions = <<"h">> /\ result.removed_functions = <<"f">>)

C7_Witness ==
    /\ pc = "done"
    /\ old_calls = <<"f", "g", "f">> /\ new_calls = <<"g", "h">>
    /\ result.added_functions = <<"h">>

Max(a, b) == IF a >= b THEN a ELSE b

\* C8 as stated: removed_literals holds the occurrences of a literal of old that
\* no occurrence of new matches one to one; [INT 1, INT 1] against [INT 1]
\* leaves one INT 1.
C8_Original ==
    pc = "done" =>
        /\ \A lit \in Range(old_literals) :
              Count(result.removed_literals, lit)
                  = Max(0, Count(old_literals, lit) - Count(new_literals, lit))
        /\ (old_literals = <<Int1, Int1>> /\ new_literals = <<Int1>>) =>
              result.removed_literals = <<Int1>>

\* C8 (amended): a literal of old is in removed_literals only when new holds no
\* equal literal at all, and then once per occurrence in old; [INT 1, INT 1]
\* against [INT 1] gives an empty removed_literals.
C8_ContainmentDelta ==
    pc = "done" =>
        /\ \A lit \in Range(old_literals) :
              Count(result.removed_literals, lit)
                  = IF lit \in Range(new_literals) THEN 0 ELSE Count(old_literals, lit)
        /\ (old_literals = <<Int1, Int1>> /\ new_literals = <<Int1>>) =>
              result.removed_literals = <<>>

C8_Witness ==
    /\ pc = "done"
    /\ old_literals = <<Int1, Int1>> /\ new_literals = <<Int1>>
    /\ result.removed_literals = <<>>

\* C9: added_literals is the subsequence of new's literals that equal no literal
\* of old, in walk order and with repetitions kept; removed_literals likewise.
C9_LiteralDelta ==
    pc = "done" =>
        LET NotInOld(lit) == lit \notin Range(old_literals)
            NotInNew(lit) == lit \notin Range(new_literals)
        IN  /\ result.added_literals = SelectSeq(new_literals, NotInOld)
            /\ result.removed_literals = SelectSeq(old_literals, NotInNew)
            /\ \A lit \in Range(new_literals) \ Range(old_literals) :
                  Count(result.added_literals, lit) = Count(new_literals, lit)

C9_Witness ==
    /\ pc = "done"
    /\ Int1 \notin Range(old_literals)
    /\ Count(new_literals, Int1) = 2
    /\ Count(result.added_literals, Int1) = 2
    /\ Int2 \in Range(result.added_literals)

-----------------------------------------------------------------------------
(* extract_function_calls on its own: one function whose body holds one    *)
(* expression, in each statement position the parser can put it.           *)

\* At most this many levels of nesting in the expression of a body.
MaxDepth == 2

Atoms ==
    { Ident("a"), Path(<<"m", "f">>), ELit(LitInt(1, 10, "")), Macro(<<"std", "vec">>) }

\* `a.x()` parses as a method call, so a field access with a named member is
\* never the callee of a call; `a.0()` is a call of a tuple field.
CanBeCallee(e) == ~(e.kind = "Field" /\ e.member.named)

RECURSIVE ExprsUpTo(_)
ExprsUpTo(d) ==
    IF d = 0 THEN Atoms
    ELSE LET S == ExprsUpTo(d - 1)
         IN  Atoms
             \cup { Call(c, <<>>) : c \in { e \in S : CanBeCallee(e) } }
             \cup { Call(Ident("f"), <<x>>) : x \in S }
             \cup { MethodCall(r, m, <<>>) : r \in S, m \in {"m", "n"} }
             \cup { MethodCall(Ident("a"), "m", <<x>>) : x \in S }
             \cup { Field(b, mem) : b \in S, mem \in {Named("x"), Unnamed(0)} }
             \cup { Paren(e) : e \in S }

Exprs == ExprsUpTo(MaxDepth)

\* The statement the parser builds from an expression: a macro invocation
\* followed by a semicolon is a statement macro (Stmt::Macro), not an
\* expression statement.
StmtOf(e, semi) ==
    IF e.kind = "Macro" /\ semi THEN StmtMacro(e.path) ELSE StmtExpr(e, semi)

WalkBodies ==
    { <<StmtOf(e, semi)>> : e \in Exprs, semi \in BOOLEAN }
    \cup { <<StmtLocal("x", <<e>>)>> : e \in Exprs }

InitWalk ==
    /\ old_func \in { ItemFn(<<>>, "", "run", <<>>, b, 1) : b \in WalkBodies }
    /\ new_func = NoFunc
    /\ result = NoResult
    /\ pc = "start"
    /\ old_ast = FileASTData_empty(FilePath)
    /\ new_ast = FileASTData_empty(FilePath)
    /\ is_new_file = FALSE
    /\ is_removed_file = FALSE
    /\ changes = DetailedChanges_new(FilePath)
    /\ file_changes = <<>>
    /\ NoFile
    /\ NoRun

\* One call of extract_function_calls.
ExtractFunctionCalls ==
    /\ pc = "start"
    /\ result' = [calls |-> extract_function_calls(old_func)]
    /\ pc' = "done"
    /\ UNCHANGED <<old_func, new_func>>
    /\ UNCHANGED astVars
    /\ UNCHANGED <<fileVars, runVars>>

NextWalk == ExtractFunctionCalls

SpecWalk == InitWalk /\ [][NextWalk]_vars

-----------------------------------------------------------------------------
(* Properties of the call walker (specification SpecWalk).                 *)

\* The expression of the body's statement (the statement macro as the
\* macro expression it is written as).
BodyExpr ==
    LET s == old_func.block[1]
    IN  CASE s.stmt = "Expr" -> s.expr
          [] s.stmt = "Local" -> s.init[1]
          [] s.stmt = "Macro" -> Macro(s.path)

Walked == pc = "done" /\ old_func # NoFunc /\ new_func = NoFunc

\* The expressions a call-shaped expression is applied to: the arguments of a
\* call, the receiver and the arguments of a method call.
Operands(e) ==
    CASE e.kind = "Call" -> Range(e.args)
      [] e.kind = "MethodCall" -> {e.receiver} \cup Range(e.args)
      [] OTHER -> {}

\* The direct sub-expressions of an expression.
Children(e) ==
    CASE e.kind = "Call" -> {e.func} \cup Range(e.args)
      [] e.kind = "MethodCall" -> {e.receiver} \cup Range(e.args)
      [] e.kind = "Field" -> {e.base}
      [] e.kind = "Paren" -> {e.expr}
      [] e.kind = "Binary" -> {e.left, e.right}
      [] e.kind = "Struct" -> Range(e.fields) \cup Range(e.rest)
      [] e.kind \in {"Array", "Tuple"} -> Range(e.elems)
      [] OTHER -> {}

\* e and every expression nested in it.
RECURSIVE SubExprs(_)
SubExprs(e) == {e} \cup UNION { SubExprs(c) : c \in Children(e) }

CallShaped(e) == e.kind \in {"Call", "MethodCall"}

\* The label of a method call by the shape of its receiver (label grammar).
MethodLabel(e) ==
    CASE e.receiver.kind = "Path" -> Last(e.receiver.segments) \o "." \o e.method
      [] e.receiver.kind = "Field" ->
            "field." \o MemberText(e.receiver.member) \o "." \o e.method
      [] e.receiver.kind = "MethodCall" ->
            "chain." \o e.receiver.method \o "." \o e.method
      [] OTHER -> "expr." \o e.method

\* The label of a call by the shape of its callee (label grammar); a simple
\* name is the last segment of a path.
CallLabel(e) ==
    CASE e.func.kind = "Path" -> JoinStr(e.func.segments, "::")
      [] e.func.kind = "Field" ->
            IF e.func.base.kind = "Path"
            THEN Last(e.func.base.segments) \o "." \o MemberText(e.func.member)
            ELSE "expr." \o MemberText(e.func.member)
      [] OTHER -> "complex_call"

LabelOf(e) == IF e.kind = "Call" THEN CallLabel(e) ELSE MethodLabel(e)

\* C11: every call or method call that is directly an argument of a call,
\* directly an argument of a method call or directly the receiver of a method
\* call has its own label in the result of extract_function_calls, next to
\* the label of the enclosing call.
C11_NestedCallsLabelled ==
    Walked =>
        \A e \in SubExprs(BodyExpr) :
            CallShaped(e) =>
                \A x \in Operands(e) :
                    CallShaped(x) => LabelOf(x) \in Range(result.calls)

-----------------------------------------------------------------------------
(* extract_file_ast (ast_parser.rs): from a file to its snapshot.  A file  *)
(* is a record: exists (it can be read), parses (syn::parse_file accepts   *)
(* it) and items (the top-level items, in source order).                   *)

SourceFile(items) == [exists |-> TRUE, parses |-> TRUE, items |-> items]
Unparsable == [exists |-> TRUE, parses |-> FALSE, items |-> <<>>]
Missing == [exists |-> FALSE, parses |-> FALSE, items |-> <<>>]

\* HashMap::insert: the value of an existing key is replaced.
Insert(map, key, value) ==
    [k \in DOMAIN map \cup {key} |-> IF k = key THEN value ELSE map[k]]

\* FileASTData::new(file_path, file_content)
FileASTData_new(file_path) == FileASTData_empty(file_path)

process_impl_block_unknown_type(impl_block, ast_data) ==
    LET type_name == IF impl_block.self_ty.ty = "Path"
                     THEN Last(impl_block.self_ty.segments)
                     ELSE "unknown"
        F[i \in 0..Len(impl_block.items)] ==
            IF i = 0 THEN ast_data.methods
            ELSE IF impl_block.items[i].item = "Fn"
                 THEN Insert(F[i - 1], type_name \o "." \o impl_block.items[i].ident,
                             <<impl_block, impl_block.items[i]>>)
                 ELSE F[i - 1]
    IN  [ast_data EXCEPT !.methods = F[Len(impl_block.items)]]

process_impl_block_first_wins(impl_block, ast_data) ==
    LET F[i \in 0..Len(impl_block.items)] ==
            IF i = 0 THEN ast_data.methods
            ELSE LET full_name == Last(impl_block.self_ty.segments) \o "."
                                      \o impl_block.items[i].ident
                 IN  IF impl_block.items[i].item = "Fn" /\ full_name \notin DOMAIN F[i - 1]
                     THEN Insert(F[i - 1], full_name, <<impl_block, impl_block.items[i]>>)
                     ELSE F[i - 1]
    IN  IF impl_block.self_ty.ty # "Path" THEN ast_data
        ELSE [ast_data EXCEPT !.methods = F[Len(impl_block.items)]]

process_impl_block(impl_block, ast_data) ==
    IF impl_block.self_ty.ty # "Path" \/ impl_block.self_ty.segments = <<>>
    THEN ast_data
    ELSE LET type_name == Last(impl_block.self_ty.segments)
             F[i \in 0..Len(impl_block.items)] ==
                 IF i = 0 THEN ast_data.methods
                 ELSE IF impl_block.items[i].item = "Fn"
                      THEN Insert(F[i - 1], type_name \o "." \o impl_block.items[i].ident,
                                  <<impl_block, impl_block.items[i]>>)
                      ELSE F[i - 1]
         IN  [ast_data EXCEPT !.methods = F[Len(impl_block.items)]]

\* One iteration of the loop of process_file_items.
process_file_item(item, ast_data) ==
    CASE item.item = "Fn" ->
            [ast_data EXCEPT !.functions = Insert(@, item.ident, item)]
      [] item.item = "Impl" -> process_impl_block(item, ast_data)
      [] item.item = "Trait" ->
            [ast_data EXCEPT !.interfaces = Insert(@, item.ident, item)]
      [] item.item \in {"Struct", "Enum", "Type"} ->
            [ast_data EXCEPT !.types = Insert(@, item.ident, item)]
      [] OTHER -> ast_data

process_file_items(items, ast_data) ==
    LET F[i \in 0..Len(items)] ==
            IF i = 0 THEN ast_data ELSE process_file_item(items[i], F[i - 1])
    IN  F[Len(items)]

Ok(value) == [ok |-> TRUE, value |-> value]
Err(error) == [ok |-> FALSE, error |-> error]

extract_file_ast(file_path, f) ==
    IF ~f.exists THEN Err("File not found")
    ELSE IF ~f.parses THEN Err("Parsing error")
    ELSE Ok(process_file_items(f.items, FileASTData_new(file_path)))

-----------------------------------------------------------------------------
(* extract_file_ast on its own: one file of a few top-level items.         *)

\* At most this many top-level items in the file.
MaxItems == 3

NormV1 == FnNorm(NormBody, 15)
NormV2 == FnNorm(NormBodyAbs, 21)
FnArea == ItemFn(<<>>, "", "area", <<"self">>, <<StmtExpr(ELit(LitInt(0, 10, "")), FALSE)>>, 16)
ImplConst == [item |-> "Const", ident |-> "ORIGIN", line |-> 17]

\* fn add (twice), struct Point, enum Point, trait Shape, a `use` item,
\* impl Point { norm; const; area }, impl geo::Point { norm }, impl &Point { norm; area }
ItemUniverse ==
    { FnAdd(AddBody, 1),
      FnAdd(AddBodyPlus1, 4),
      [item |-> "Struct", ident |-> "Point", tokens |-> <<"{", "x", "}">>, line |-> 10],
      [item |-> "Enum", ident |-> "Point", tokens |-> <<"{", "X", "}">>, line |-> 11],
      [item |-> "Trait", ident |-> "Shape", tokens |-> <<"{", "}">>, line |-> 12],
      [item |-> "Use", line |-> 13],
      ItemImpl(TypePath(<<"Point">>), "", <<NormV1, ImplConst, FnArea>>, 14),
      ItemImpl(TypePath(<<"geo", "Point">>), "Shape", <<NormV2>>, 20),
      ItemImpl(TypeReference(TypePath(<<"Point">>)), "Shape", <<NormV2, FnArea>>, 24) }

Files ==
    { Missing, Unparsable }
    \cup { SourceFile(items) :
             items \in UNION { [1..n -> ItemUniverse] : n \in 0..MaxItems } }

InitExtract ==
    /\ file \in Files
    /\ ast_result = [item |-> "None"]
    /\ pc = "start"
    /\ old_ast = FileASTData_empty(FilePath)
    /\ new_ast = FileASTData_empty(FilePath)
    /\ is_new_file = FALSE
    /\ is_removed_file = FALSE
    /\ changes = DetailedChanges_new(FilePath)
    /\ file_changes = <<>>
    /\ old_func = NoFunc
    /\ new_func = NoFunc
    /\ result = NoResult
    /\ NoRun

\* One call of extract_file_ast.
ExtractFileAst ==
    /\ pc = "start"
    /\ ast_result' = extract_file_ast(FilePath, file)
    /\ pc' = "done"
    /\ UNCHANGED file
    /\ UNCHANGED <<astVars, funcVars, runVars>>

NextExtract == ExtractFileAst

SpecExtract == InitExtract /\ [][NextExtract]_vars

-----------------------------------------------------------------------------
(* Properties of the extraction (specification SpecExtract).               *)

Extracted == pc = "done" /\ file # [item |-> "None"]

IsNonPathImpl(item) == item.item = "Impl" /\ item.self_ty.ty # "Path"

\* The items of the file other than the non-path impl blocks, in order.
WithoutNonPathImpls(items) ==
    LET Keep(item) == ~IsNonPathImpl(item) IN SelectSeq(items, Keep)

\* C12: an impl block with a non-path self-type is skipped as a whole:
\* extraction returns Ok, no entry of the methods map comes from such a block,
\* and the snapshot is the one the file has without these blocks (every other
\* item, before and after, is extracted as usual).
C12_NonPathImplSkipped ==
    (Extracted /\ file.exists /\ file.parses) =>
        /\ ast_result.ok
        /\ \A name \in DOMAIN ast_result.value.methods :
              ~IsNonPathImpl(ast_result.value.methods[name][1])
        /\ ast_result.value
              = process_file_items(WithoutNonPathImpls(file.items),
                                   FileASTData_new(FilePath))

\* The file holds a non-path impl block between two extracted items.
C12_Witness ==
    /\ Extracted
    /\ file.exists /\ file.parses
    /\ Len(file.items) = 3
    /\ IsNonPathImpl(file.items[2])
    /\ file.items[1].item = "Fn"
    /\ file.items[3].item = "Impl" /\ ~IsNonPathImpl(file.items[3])
    /\ ast_result.ok
    /\ DOMAIN ast_result.value.functions = {"add"}
    /\ DOMAIN ast_result.value.methods = {"Point.norm"}

\* The declarations of a file in source order: position (item index, index in
\* the impl block or 0), category, qualified name and the value stored for it.
DeclsOf(items) ==
    { [pos |-> <<i, 0>>, cat |-> "functions", name |-> items[i].ident, value |-> items[i]] :
        i \in { i \in 1..Len(items) : items[i].item = "Fn" } }
    \cup { [pos |-> <<i, 0>>, cat |-> "types", name |-> items[i].ident, value |-> items[i]] :
        i \in { i \in 1..Len(items) : items[i].item \in {"Struct", "Enum", "Type"} } }
    \cup { [pos |-> <<i, 0>>, cat |-> "interfaces", name |-> items[i].ident, value |-> items[i]] :
        i \in { i \in 1..Len(items) : items[i].item = "Trait" } }
    \cup UNION {
           { [pos |-> <<i, j>>, cat |-> "methods",
              name |-> Last(items[i].self_ty.segments) \o "." \o items[i].items[j].ident,
              value |-> <<items[i], items[i].items[j]>>] :
               j \in { j \in 1..Len(items[i].items) : items[i].items[j].item = "Fn" } } :
           i \in { i \in 1..Len(items) :
                     items[i].item = "Impl" /\ items[i].self_ty.ty = "Path" } }

\* Source order of two positions.
Before(p, q) == p[1] < q[1] \/ (p[1] = q[1] /\ p[2] < q[2])

\* C17: after extraction each map holds, for every qualified name declared in
\* its category, exactly one declaration, the last one in source order, and
\* nothing else; methods are keyed "<last segment of the self-type>.<member>".
C17_LastDeclarationWins ==
    (Extracted /\ file.exists /\ file.parses) =>
        /\ ast_result.ok
        /\ \A cat \in Categories :
              LET ds == { d \in DeclsOf(file.items) : d.cat = cat }
                  map == ast_result.value[cat]
              IN  /\ DOMAIN map = { d.name : d \in ds }
                  /\ \A d \in ds :
                        (\A e \in ds : e.name = d.name => ~Before(d.pos, e.pos))
                            => map[d.name] = d.value

\* Two impl blocks for the type name Point (Point and geo::Point) both define
\* norm: the method of the later block is the one kept.
C17_Witness ==
    /\ Extracted
    /\ file.exists /\ file.parses
    /\ \E i, j \in 1..Len(file.items) :
          /\ i < j
          /\ file.items[i].item = "Impl" /\ file.items[j].item = "Impl"
          /\ file.items[i].self_ty.ty = "Path" /\ file.items[j].self_ty.ty = "Path"
          /\ file.items[i] # file.items[j]
          /\ ast_result.value.methods["Point.norm"] = <<file.items[j], file.items[j].items[1]>>
          /\ "Point.area" \in DOMAIN ast_result.value.methods

-----------------------------------------------------------------------------
(* The whole run (main.rs): the version-control queries, process_rust_files *)
(* step by step, the output files and the granular pass.  Every git        *)
(* command may fail; `failed` records the ones that did.                   *)

\* The paths `git diff --name-only` can list, in the order it lists them.
RunFiles == <<"README.md", "core/a.rs", "util/b.rs">>

\* file.ends_with(".rs")
IsRustFile(path) == path \in {"core/a.rs", "util/b.rs"}

\* Path::new(path).parent().file_name()
ParentDirName(path) ==
    CASE path = "core/a.rs" -> "core"
      [] path = "util/b.rs" -> "util"
      [] OTHER -> "unknown"

\* Path::new(local_repo_path).join(file)
FullPath(path) == "repo/" \o path

\* The elements of a sequence of paths that pass Keep, in order.
PathsWhere(paths, S) == SelectSeq(paths, LAMBDA path : path \in S)

\* git diff --name-only <branch>: the paths whose working-tree content differs
\* from the base revision.
get_changed_files(r, at) ==
    PathsWhere(RunFiles, { f \in Range(RunFiles) : r[at][f] # r["base"][f] })

\* git diff --name-only --diff-filter=A <branch> <commit>
get_new_files(r) ==
    PathsWhere(RunFiles, { f \in Range(RunFiles) :
                             ~r["base"][f].exists /\ r["target"][f].exists })

\* git diff --name-only --diff-filter=D <branch> <commit>
get_deleted_files(r) ==
    PathsWhere(RunFiles, { f \in Range(RunFiles) :
                             r["base"][f].exists /\ ~r["target"][f].exists })

\* main: the changed paths that end with ".rs".
rust_files == SelectSeq(changed_files, IsRustFile)

\* main: the maps built from the two lists (only contains_key is used).
new_file_map == Range(new_files)
deleted_file_map == Range(deleted_files)

\* extract_module_name: the first `mod` item of the file in the working tree,
\* else the name of the directory of the file.
extract_module_name(file_path, f) ==
    LET mods == IF f.exists /\ f.parses
                THEN { i \in 1..Len(f.items) : f.items[i].item = "Mod" }
                ELSE {}
    IN  IF mods # {}
        THEN f.items[CHOOSE i \in mods : \A j \in mods : i <= j].ident
        ELSE ParentDirName(file_path)

\* DetailedChanges::has_changes
has_changes(c) ==
    \/ c.added_functions # <<>> \/ c.modified_functions # <<>> \/ c.deleted_functions # <<>>
    \/ c.added_types # <<>> \/ c.modified_types # <<>> \/ c.deleted_types # <<>>
    \/ c.added_interfaces # <<>> \/ c.modified_interfaces # <<>>
    \/ c.deleted_interfaces # <<>>
    \/ c.added_methods # <<>> \/ c.modified_methods # <<>> \/ c.deleted_methods # <<>>

extract_all_stale(paths, tree) ==
    [f \in paths |->
        LET r == extract_file_ast(FullPath(f), tree[f])
        IN  IF r.ok THEN r.value
            ELSE process_file_items(<<FnAdd(AddBody, 1)>>, FileASTData_new(f))]

\* extract_file_ast of every listed file in the working tree, an empty
\* snapshot where it fails (process_rust_files steps 1 and 2, granular steps
\* 1 and 2).
extract_all(paths, tree) ==
    [f \in paths |->
        LET r == extract_file_ast(FullPath(f), tree[f])
        IN  IF r.ok THEN r.value ELSE FileASTData_empty(f)]

\* map.get(file).cloned().unwrap_or_else(|| FileASTData::empty(file))
get_or_empty(map, f) == IF f \in DOMAIN map THEN map[f] ELSE FileASTData_empty(f)

\* process_rust_files step 3, the two snapshots compared for one file.
old_ast_of(f) ==
    IF f \in new_file_map THEN FileASTData_empty(f) ELSE get_or_empty(branch_asts, f)

new_ast_of(f) ==
    IF f \in new_file_map THEN get_or_empty(current_asts, f)
    ELSE IF f \in deleted_file_map THEN FileASTData_empty(f)
    ELSE get_or_empty(current_asts, f)

package_name_of(f) ==
    IF f \notin new_file_map /\ f \in deleted_file_map
    THEN ParentDirName(f)
    ELSE extract_module_name(FullPath(f), repo[head][f])

\* process_rust_files step 3: the reports of the files in list order, a
\* report kept only if it has changes.  iters gives the HashMap iteration
\* orders used for each file.
compare_all_keep_empty(paths, iters) ==
    LET F[i \in 0..Len(paths)] ==
            IF i = 0 THEN <<>>
            ELSE LET f == paths[i]
                 IN  Append(F[i - 1],
                            compare_asts(old_ast_of(f), new_ast_of(f), package_name_of(f),
                                         f, f \in new_file_map, f \in deleted_file_map,
                                         iters[f]))
    IN  F[Len(paths)]

\* Mutation variant: each report is put in front of the earlier ones.
compare_all_reverse_order(paths, iters) ==
    LET F[i \in 0..Len(paths)] ==
            IF i = 0 THEN <<>>
            ELSE LET f == paths[i]
                     c == compare_asts(old_ast_of(f), new_ast_of(f), package_name_of(f),
                                       f, f \in new_file_map, f \in deleted_file_map,
                                       iters[f])
                 IN  IF has_changes(c) THEN <<c>> \o F[i - 1] ELSE F[i - 1]
    IN  F[Len(paths)]

compare_all(paths, iters) ==
    LET F[i \in 0..Len(paths)] ==
            IF i = 0 THEN <<>>
            ELSE LET f == paths[i]
                     c == compare_asts(old_ast_of(f), new_ast_of(f), package_name_of(f),
                                       f, f \in new_file_map, f \in deleted_file_map,
                                       iters[f])
                 IN  IF has_changes(c) THEN Append(F[i - 1], c) ELSE F[i - 1]
    IN  F[Len(paths)]

\* The HashMap iteration orders of the comparisons of all files.
IterChoices(paths) ==
    LET S == Range(paths)
    IN  { g \in [S -> UNION { IterOrders(old_ast_of(f), new_ast_of(f)) : f \in S }] :
            \A f \in S : g[f] \in IterOrders(old_ast_of(f), new_ast_of(f)) }

\* Concatenation of a sequence of sequences.
RECURSIVE Flatten(_)
Flatten(seqs) == IF seqs = <<>> THEN <<>> ELSE Head(seqs) \o Flatten(Tail(seqs))

OutputCategory(filename) ==
    CASE filename = "function_changes.json" -> "functions"
      [] filename = "type_changes.json" -> "types"
      [] filename = "interface_changes.json" -> "interfaces"
      [] filename = "method_changes.json" -> "methods"

\* Mutation variant: only the first report is written.
create_type_specific_file_first_report(reports, filename) ==
    LET cat == OutputCategory(filename)
        first == SubSeq(reports, 1, IF reports = <<>> THEN 0 ELSE 1)
        Named2(c, list) ==
            [i \in 1..Len(list) |->
                [module |-> c.module_name, name |-> list[i][1], code |-> list[i][2]]]
        Named3(c, list) ==
            [i \in 1..Len(list) |->
                [module |-> c.module_name, name |-> list[i][1],
                 oldCode |-> list[i][2], newCode |-> list[i][3]]]
    IN  [added |-> Flatten([k \in 1..Len(first) |->
                        Named2(first[k], first[k]["added_" \o cat])]),
         modified |-> Flatten([k \in 1..Len(first) |->
                        Named3(first[k], first[k]["modified_" \o cat])]),
         deleted |-> Flatten([k \in 1..Len(first) |->
                        Named2(first[k], first[k]["deleted_" \o cat])])]

\* create_type_specific_file: the content written for one category.
create_type_specific_file(reports, filename) ==
    LET cat == OutputCategory(filename)
        Named2(c, list) ==
            [i \in 1..Len(list) |->
                [module |-> c.module_name, name |-> list[i][1], code |-> list[i][2]]]
        Named3(c, list) ==
            [i \in 1..Len(list) |->
                [module |-> c.module_name, name |-> list[i][1],
                 oldCode |-> list[i][2], newCode |-> list[i][3]]]
    IN  [added |-> Flatten([k \in 1..Len(reports) |->
                        Named2(reports[k], reports[k]["added_" \o cat])]),
         modified |-> Flatten([k \in 1..Len(reports) |->
                        Named3(reports[k], reports[k]["modified_" \o cat])]),
         deleted |-> Flatten([k \in 1..Len(reports) |->
                        Named2(reports[k], reports[k]["deleted_" \o cat])])]

\* create_output_files: the five files, name -> content.
create_output_files(reports) ==
    [filename \in {"all_code_changes.json", "function_changes.json", "type_changes.json",
                   "interface_changes.json", "method_changes.json"} |->
        IF filename = "all_code_changes.json" THEN reports
        ELSE create_type_specific_file(reports, filename)]

\* get_granular_change_for_functions step 3: file -> name -> delta, for the
\* files with at least one delta.
granular_changes_of(paths, old_asts, new_asts) ==
    LET S == { f \in Range(paths) :
                 granular_file_changes(old_asts[f], new_asts[f]) # <<>> }
    IN  [f \in S |-> granular_file_changes(old_asts[f], new_asts[f])]

\* The contents a file can have at one revision.
ContentsOf(path) ==
    CASE path = "core/a.rs" ->
            { Missing, Unparsable,
              SourceFile(<<[item |-> "Use", line |-> 1]>>),
              SourceFile(<<FnAdd(AddBody, 1)>>),
              SourceFile(<<FnAdd(AddBodyPlus1, 1)>>),
              SourceFile(<<[item |-> "Struct", ident |-> "Point",
                            tokens |-> <<"{", "x", "}">>, line |-> 10],
                           ItemImpl(TypePath(<<"Point">>), "", <<NormV1>>, 14)>>) }
      [] path = "util/b.rs" ->
            { Missing,
              SourceFile(<<[item |-> "Trait", ident |-> "Shape",
                            tokens |-> <<"{", "}">>, line |-> 12]>>),
              SourceFile(<<[item |-> "Trait", ident |-> "Shape",
                            tokens |-> <<"{", "area", "}">>, line |-> 12]>>) }
      [] OTHER -> { Missing, Unparsable }

Trees == { t \in [Range(RunFiles) -> UNION { ContentsOf(f) : f \in Range(RunFiles) }] :
             \A f \in Range(RunFiles) : t[f] \in ContentsOf(f) }

InitRun ==
    /\ repo \in [{"base", "target"} -> Trees]
    /\ head \in {"base", "target"}
    /\ changed_files = <<>>
    /\ new_files = <<>>
    /\ deleted_files = <<>>
    /\ failed = {}
    /\ branch_asts = <<>>
    /\ current_asts = <<>>
    /\ all_changes = <<>>
    /\ outputs = <<>>
    /\ exit_code = "running"
    /\ pc = "start"
    /\ old_ast = FileASTData_empty(FilePath)
    /\ new_ast = FileASTData_empty(FilePath)
    /\ is_new_file = FALSE
    /\ is_removed_file = FALSE
    /\ changes = DetailedChanges_new(FilePath)
    /\ file_changes = <<>>
    /\ old_func = NoFunc
    /\ new_func = NoFunc
    /\ result = NoResult
    /\ NoFile

otherVars == <<astVars, funcVars, fileVars>>

\* process::exit(code)
Exit(code) ==
    /\ exit_code' = code
    /\ pc' = "exited"

\* main.rs 36-43
GetChangedFiles ==
    /\ pc = "start"
    /\ \E ok \in BOOLEAN :
          IF ok
          THEN /\ changed_files' = get_changed_files(repo, head)
               /\ pc' = "get_new_files"
               /\ UNCHANGED <<failed, exit_code>>
          ELSE /\ failed' = failed \cup {"get_changed_files"}
               /\ Exit("1")
               /\ UNCHANGED changed_files
    /\ UNCHANGED <<repo, new_files, deleted_files, head, branch_asts, current_asts,
                   all_changes, outputs>>
    /\ UNCHANGED otherVars

\* main.rs 45-52
GetNewFiles ==
    /\ pc = "get_new_files"
    /\ \E ok \in BOOLEAN :
          IF ok
          THEN new_files' = get_new_files(repo) /\ UNCHANGED failed
          ELSE new_files' = <<>> /\ failed' = failed \cup {"get_new_files"}
    /\ pc' = "get_deleted_files"
    /\ UNCHANGED <<repo, changed_files, deleted_files, head, branch_asts, current_asts,
                   all_changes, outputs, exit_code>>
    /\ UNCHANGED otherVars

\* main.rs 54-88: the deleted files, then exit(0) when no Rust file changed.
GetDeletedFiles ==
    /\ pc = "get_deleted_files"
    /\ \E ok \in BOOLEAN :
          IF ok
          THEN deleted_files' = get_deleted_files(repo) /\ UNCHANGED failed
          ELSE deleted_files' = <<>> /\ failed' = failed \cup {"get_deleted_files"}
    /\ IF rust_files = <<>>
       THEN Exit("0")
       ELSE pc' = "checkout_branch" /\ UNCHANGED exit_code
    /\ UNCHANGED <<repo, changed_files, new_files, head, branch_asts, current_asts,
                   all_changes, outputs>>
    /\ UNCHANGED otherVars

\* main.rs 90-102: checkout of the branch, else of "<branch>^{commit}".
CheckoutBranch ==
    /\ pc = "checkout_branch"
    /\ \E ok, alt_ok \in BOOLEAN :
          IF ok
          THEN /\ head' = "base"
               /\ pc' = "prf_checkout_branch"
               /\ UNCHANGED <<failed, exit_code>>
          ELSE IF alt_ok
          THEN /\ head' = "base"
               /\ failed' = failed \cup {"main.checkout_branch"}
               /\ pc' = "prf_checkout_branch"
               /\ UNCHANGED exit_code
          ELSE /\ failed' = failed \cup {"main.checkout_branch", "main.checkout_commit"}
               /\ Exit("1")
               /\ UNCHANGED head
    /\ UNCHANGED <<repo, changed_files, new_files, deleted_files, branch_asts,
                   current_asts, all_changes, outputs>>
    /\ UNCHANGED otherVars

\* differ.rs 340-345: a failed checkout returns the empty list to main.
PrfCheckoutBranch ==
    /\ pc = "prf_checkout_branch"
    /\ \E ok \in BOOLEAN :
          IF ok
          THEN /\ head' = "base"
               /\ pc' = "prf_extract_branch"
               /\ UNCHANGED failed
          ELSE /\ failed' = failed \cup {"process_rust_files.checkout_branch"}
               /\ pc' = "create_output_files"
               /\ UNCHANGED head
    /\ UNCHANGED <<repo, changed_files, new_files, deleted_files, branch_asts,
                   current_asts, all_changes, outputs, exit_code>>
    /\ UNCHANGED otherVars

\* Mutation variant: the base snapshots of all files, the new ones included.
PrfExtractBranch_all_files ==
    /\ pc = "prf_extract_branch"
    /\ branch_asts' = extract_all(Range(rust_files), repo[head])
    /\ pc' = "prf_checkout_commit"
    /\ UNCHANGED <<repo, changed_files, new_files, deleted_files, head, failed,
                   current_asts, all_changes, outputs, exit_code>>
    /\ UNCHANGED otherVars

\* differ.rs 347-362: the base snapshots of the files that are not new.
PrfExtractBranch ==
    /\ pc = "prf_extract_branch"
    /\ branch_asts' = extract_all(Range(rust_files) \ new_file_map, repo[head])
    /\ pc' = "prf_checkout_commit"
    /\ UNCHANGED <<repo, changed_files, new_files, deleted_files, head, failed,
                   current_asts, all_changes, outputs, exit_code>>
    /\ UNCHANGED otherVars

\* differ.rs 364-377: checkout of the commit, else of "<commit>^{commit}".
PrfCheckoutCommit ==
    /\ pc = "prf_checkout_commit"
    /\ \E ok, alt_ok \in BOOLEAN :
          IF ok
          THEN /\ head' = "target"
               /\ pc' = "prf_extract_current"
               /\ UNCHANGED failed
          ELSE IF alt_ok
          THEN /\ head' = "target"
               /\ failed' = failed \cup {"process_rust_files.checkout_commit"}
               /\ pc' = "prf_extract_current"
          ELSE /\ failed' = failed \cup {"process_rust_files.checkout_commit",
                                         "process_rust_files.checkout_commit_alt"}
               /\ pc' = "create_output_files"
               /\ UNCHANGED head
    /\ UNCHANGED <<repo, changed_files, new_files, deleted_files, branch_asts,
                   current_asts, all_changes, outputs, exit_code>>
    /\ UNCHANGED otherVars

\* differ.rs 379-394: the target snapshots of the files that are not deleted.
PrfExtractCurrent ==
    /\ pc = "prf_extract_current"
    /\ current_asts' = extract_all(Range(rust_files) \ deleted_file_map, repo[head])
    /\ pc' = "prf_compare"
    /\ UNCHANGED <<repo, changed_files, new_files, deleted_files, head, failed,
                   branch_asts, all_changes, outputs, exit_code>>
    /\ UNCHANGED otherVars

\* differ.rs 396-455: the comparison of every file.
PrfCompare ==
    /\ pc = "prf_compare"
    /\ \E iters \in IterChoices(rust_files) :
          all_changes' = compare_all(rust_files, iters)
    /\ pc' = "create_output_files"
    /\ UNCHANGED <<repo, changed_files, new_files, deleted_files, head, failed,
                   branch_asts, current_asts, outputs, exit_code>>
    /\ UNCHANGED otherVars

\* main.rs 115, output.rs 11-59: nothing is written when the output directory
\* cannot be created.
CreateOutputFiles ==
    /\ pc = "create_output_files"
    /\ \E dir_ok \in BOOLEAN :
          IF dir_ok THEN outputs' = create_output_files(all_changes)
          ELSE UNCHANGED outputs
    /\ pc' = "granular"
    /\ UNCHANGED <<repo, changed_files, new_files, deleted_files, head, failed,
                   branch_asts, current_asts, all_changes, exit_code>>
    /\ UNCHANGED otherVars

\* Mutation variant: no file is written when no function or method changed.
GetGranularChange_skip_empty ==
    /\ pc = "granular"
    /\ \E branch_ok, commit_ok \in BOOLEAN :
          IF ~branch_ok
          THEN /\ failed' = failed \cup {"granular.checkout_branch"}
               /\ UNCHANGED <<head, outputs>>
          ELSE IF ~commit_ok
          THEN /\ failed' = failed \cup {"granular.checkout_commit"}
               /\ head' = "base"
               /\ UNCHANGED outputs
          ELSE /\ head' = "target"
               /\ LET g == granular_changes_of(
                               rust_files,
                               extract_all(Range(rust_files), repo["base"]),
                               extract_all(Range(rust_files), repo["target"]))
                  IN  outputs' = IF g = <<>> THEN outputs
                                 ELSE Insert(outputs, "function_changes_granular.json", g)
               /\ UNCHANGED failed
    /\ Exit("0")
    /\ UNCHANGED <<repo, changed_files, new_files, deleted_files, branch_asts,
                   current_asts, all_changes>>
    /\ UNCHANGED otherVars

\* main.rs 118-121, granular.rs 15-164: both checkouts, the snapshots of every
\* file at both revisions, the deltas, the granular file; then main returns.
GetGranularChange ==
    /\ pc = "granular"
    /\ \E branch_ok, commit_ok \in BOOLEAN :
          IF ~branch_ok
          THEN /\ failed' = failed \cup {"granular.checkout_branch"}
               /\ UNCHANGED <<head, outputs>>
          ELSE IF ~commit_ok
          THEN /\ failed' = failed \cup {"granular.checkout_commit"}
               /\ head' = "base"
               /\ UNCHANGED outputs
          ELSE /\ head' = "target"
               /\ outputs' =
                     Insert(outputs, "function_changes_granular.json",
                            granular_changes_of(
                                rust_files,
                                extract_all(Range(rust_files), repo["base"]),
                                extract_all(Range(rust_files), repo["target"])))
               /\ UNCHANGED failed
    /\ Exit("0")
    /\ UNCHANGED <<repo, changed_files, new_files, deleted_files, branch_asts,
                   current_asts, all_changes>>
    /\ UNCHANGED otherVars

NextRun ==
    \/ GetChangedFiles
    \/ GetNewFiles
    \/ GetDeletedFiles
    \/ CheckoutBranch
    \/ PrfCheckoutBranch
    \/ PrfExtractBranch
    \/ PrfCheckoutCommit
    \/ PrfExtractCurrent
    \/ PrfCompare
    \/ CreateOutputFiles
    \/ GetGranularChange

SpecRun == InitRun /\ [][NextRun]_vars

-----------------------------------------------------------------------------
(* Properties of the run (specification SpecRun).                          *)

\* process_rust_files ran its comparison loop and returned to main.
RunCompared ==
    /\ repo # [item |-> "None"]
    /\ rust_files # <<>>
    /\ pc \in {"create_output_files", "granular", "exited"}
    /\ exit_code # "1"
    /\ "process_rust_files.checkout_branch" \notin failed
    /\ "process_rust_files.checkout_commit_alt" \notin failed

\* Whether the file can be read and parsed at a revision, and its snapshot
\* (empty when it cannot).
ExtractsAt(rev, f) == extract_file_ast(FullPath(f), repo[rev][f]).ok

SnapshotAt(rev, f) ==
    IF ExtractsAt(rev, f)
    THEN extract_file_ast(FullPath(f), repo[rev][f]).value
    ELSE FileASTData_empty(f)

HasDecls(ast) == \E cat \in Categories : Keys(ast, cat) # {}

\* The positions of the reports of a file in the result (compare_asts stores
\* the file path as module_name).
ReportsOf(f) ==
    { i \in 1..Len(all_changes) : all_changes[i].module_name = f }

\* The `Of` lists of report c hold exactly the declarations of ast.
ListsExactly(c, Of(_, _), ast) ==
    \A cat \in Categories :
        Range(Of(c, cat)) = { <<n, Rendered(ast, cat, n)>> : n \in Keys(ast, cat) }

ListsNothing(c, Of(_, _)) == \A cat \in Categories : Of(c, cat) = <<>>

NewRustFiles == Range(rust_files) \cap new_file_map

\* C13 as stated: a file of new_file_map always has a report in the result of
\* process_rust_files, and the report lists every declaration of its new
\* snapshot as added.
C13_Original ==
    RunCompared =>
        \A f \in NewRustFiles :
            /\ ReportsOf(f) # {}
            /\ \A i \in ReportsOf(f) :
                  ListsExactly(all_changes[i], AddedOf, SnapshotAt("target", f))

\* C13, amended: a file of new_file_map has a report exactly when its new
\* snapshot holds at least one declaration; the report then lists every
\* declaration of the new snapshot as added and nothing as modified or deleted.
C13_NewFileReport ==
    RunCompared =>
        \A f \in NewRustFiles :
            /\ ReportsOf(f) # {} <=> HasDecls(SnapshotAt("target", f))
            /\ \A i \in ReportsOf(f) :
                  /\ ListsExactly(all_changes[i], AddedOf, SnapshotAt("target", f))
                  /\ ListsNothing(all_changes[i], ModifiedOf)
                  /\ ListsNothing(all_changes[i], DeletedOf)

\* core/a.rs is new, holds a struct and a method, and has its report.
C13_Witness ==
    /\ RunCompared
    /\ "core/a.rs" \in NewRustFiles
    /\ \E i \in ReportsOf("core/a.rs") :
          /\ all_changes[i].added_types # <<>>
          /\ all_changes[i].added_methods # <<>>

\* C14: when a file cannot be read or parsed at exactly one revision, the run
\* is not aborted, the file's report (present when the other side declares
\* anything) lists every declaration of the other side as added (old side
\* failed) or as deleted (new side failed) and nothing as modified, and every
\* other file whose declarations differ still has its report.
C14_ExtractionFailureIsNotFatal ==
    RunCompared =>
        \A f \in Range(rust_files) :
            LET old == SnapshotAt("base", f)
                new == SnapshotAt("target", f)
                Differ(g) ==
                    \E cat \in Categories :
                        { <<n, Rendered(SnapshotAt("base", g), cat, n)>> :
                            n \in Keys(SnapshotAt("base", g), cat) }
                        # { <<n, Rendered(SnapshotAt("target", g), cat, n)>> :
                              n \in Keys(SnapshotAt("target", g), cat) }
            IN  /\ (~ExtractsAt("base", f) /\ ExtractsAt("target", f)) =>
                      /\ ReportsOf(f) # {} <=> HasDecls(new)
                      /\ \A i \in ReportsOf(f) :
                            /\ ListsExactly(all_changes[i], AddedOf, new)
                            /\ ListsNothing(all_changes[i], ModifiedOf)
                            /\ ListsNothing(all_changes[i], DeletedOf)
                /\ (ExtractsAt("base", f) /\ ~ExtractsAt("target", f)) =>
                      /\ ReportsOf(f) # {} <=> HasDecls(old)
                      /\ \A i \in ReportsOf(f) :
                            /\ ListsExactly(all_changes[i], DeletedOf, old)
                            /\ ListsNothing(all_changes[i], ModifiedOf)
                            /\ ListsNothing(all_changes[i], AddedOf)
                /\ (ExtractsAt("base", f) # ExtractsAt("target", f)) =>
                      \A g \in Range(rust_files) \ {f} :
                          Differ(g) => ReportsOf(g) # {}

\* core/a.rs does not parse at the base revision and declares add at the
\* target; util/b.rs changed too; both have a report.
C14_Witness ==
    /\ RunCompared
    /\ repo["base"]["core/a.rs"] = Unparsable
    /\ ExtractsAt("target", "core/a.rs")
    /\ \E i \in ReportsOf("core/a.rs") : all_changes[i].added_functions # <<>>
    /\ \E i \in ReportsOf("util/b.rs") : all_changes[i].modified_interfaces # <<>>

GranularCommands == {"granular.checkout_branch", "granular.checkout_commit"}

\* C15: once a checkout or a diff command has failed the run has stopped with
\* an error, and a failure before the granular pass leaves no change report
\* and no output file.
C15_VersionControlFailureIsFatal ==
    /\ failed # {} => (pc = "exited" /\ exit_code = "1")
    /\ (failed \ GranularCommands) # {} => (all_changes = <<>> /\ outputs = <<>>)

-----------------------------------------------------------------------------
(* Properties of the granular pass on one file (specification Spec).       *)

\* The functions and methods of the file that exist on both sides with
\* different renderings.
ModifiedNames(cat) ==
    { name \in Keys(old_ast, cat) \cap Keys(new_ast, cat) :
        Rendered(old_ast, cat, name) # Rendered(new_ast, cat, name) }

\* The declaration node handed to compare_called_functions for a name.
FnNode(ast, cat, name) == IF cat = "methods" THEN ast.methods[name][2] ELSE ast[cat][name]

NoOpDelta(d) ==
    /\ d.added_functions = <<>> /\ d.removed_functions = <<>>
    /\ d.added_literals = <<>> /\ d.removed_literals = <<>>

\* C16: every modified function or method of the file has an entry in the
\* granular result, also when its four delta lists are empty, and the entry
\* carries the old and the new source location, read from the spans of the
\* two declaration nodes.
C16_LocationsAlwaysPresent ==
    pc = "done" =>
        \A cat \in {"functions", "methods"} :
            \A name \in ModifiedNames(cat) :
                /\ name \in DOMAIN file_changes
                /\ file_changes[name].old_function_src_loc
                      = [start_line |-> FnNode(old_ast, cat, name).line,
                         file_name |-> old_ast.file_path]
                /\ file_changes[name].new_function_src_loc
                      = [start_line |-> FnNode(new_ast, cat, name).line,
                         file_name |-> new_ast.file_path]

\* sub changed the argument of its call of log and moved one line down: no
\* call or literal is added or removed, and the entry is there.
C16_Witness ==
    /\ pc = "done"
    /\ "sub" \in ModifiedNames("functions")
    /\ "sub" \in DOMAIN file_changes
    /\ NoOpDelta(file_changes["sub"])
    /\ file_changes["sub"].old_function_src_loc.start_line
          # file_changes["sub"].new_function_src_loc.start_line

-----------------------------------------------------------------------------
(* The labels of the call walker (specification SpecWalk).  The body       *)
(* expression is the one handed to the visitor's visit_expr.               *)

C19_WitnessField ==
    /\ Walked
    /\ BodyExpr.kind = "Call"
    /\ BodyExpr.func.kind = "Field"
    /\ result.calls[1] \in {"a.0", "expr.0"}

\* C20: every macro invocation of the body, written as an expression or as a
\* statement, contributes the label "macro!<last path segment>".
C20_MacroLabel ==
    Walked =>
        \A e \in SubExprs(BodyExpr) :
            e.kind = "Macro" => ("macro!" \o Last(e.path)) \in Range(result.calls)

-----------------------------------------------------------------------------
(* extract_literals on its own: one function whose body holds one          *)
(* expression built from literals and composite literals, or two literal   *)
(* statements.                                                             *)

\* At most this many levels of nesting in the expression of a body.
MaxNest == 2

\* One literal of every kind of syn::Lit, the integer in two radices:
\* "hi"  1  0xffu8  1.5f32  true  'c'  b'c'  b"hi"  c"hi"  and a token syn
\* keeps verbatim.  The value of a token is the text the visitor's arm reads.
LitAtoms ==
    { ELit(LitTok("Str", "\"hi\"", "hi")),
      ELit(LitInt(1, 10, "")),
      ELit(LitInt(255, 16, "u8")),
      ELit(LitTok("Float", "1.5f32", "1.5")),
      ELit(LitTok("Bool", "true", "true")),
      ELit(LitTok("Char", "'c'", "c")),
      ELit(LitTok("Byte", "b'c'", "99")),
      ELit(LitTok("ByteStr", "b\"hi\"", "[104, 105]")),
      ELit(LitTok("CStr", "c\"hi\"", "\"hi\"")),
      ELit(LitTok("Verbatim", "1e", "Literal { lit: 1e }")) }

\* geo::P { x: e }   P { x: 1, ..e }   [e]   (1, e)   f(e)
RECURSIVE LitExprsUpTo(_)
LitExprsUpTo(d) ==
    IF d = 0 THEN LitAtoms \cup {Ident("a")}
    ELSE LET S == LitExprsUpTo(d - 1)
         IN  LitAtoms \cup {Ident("a")}
             \cup { Struct(<<"geo", "P">>, <<e>>, <<>>) : e \in S }
             \cup { Struct(<<"P">>, <<ELit(LitInt(1, 10, ""))>>, <<e>>) : e \in S }
             \cup { Array(<<e>>) : e \in S }
             \cup { Tuple(<<ELit(LitInt(1, 10, "")), e>>) : e \in S }
             \cup { Call(Ident("f"), <<e>>) : e \in S }

LitExprs == LitExprsUpTo(MaxNest)

LitBodies ==
    { <<StmtExpr(e, semi)>> : e \in LitExprs, semi \in BOOLEAN }
    \cup { <<StmtLocal("x", <<e>>)>> : e \in LitExprs }
    \cup { <<StmtExpr(a, TRUE), StmtExpr(b, TRUE)>> : a \in LitAtoms, b \in LitAtoms }

InitLit ==
    /\ old_func \in { ItemFn(<<>>, "", "run", <<>>, b, 1) : b \in LitBodies }
    /\ new_func = NoFunc
    /\ result = NoResult
    /\ pc = "start"
    /\ old_ast = FileASTData_empty(FilePath)
    /\ new_ast = FileASTData_empty(FilePath)
    /\ is_new_file = FALSE
    /\ is_removed_file = FALSE
    /\ changes = DetailedChanges_new(FilePath)
    /\ file_changes = <<>>
    /\ NoFile
    /\ NoRun

\* One call of extract_literals.
ExtractLiterals ==
    /\ pc = "start"
    /\ result' = [literals |-> extract_literals(old_func)]
    /\ pc' = "done"
    /\ UNCHANGED <<old_func, new_func>>
    /\ UNCHANGED astVars
    /\ UNCHANGED <<fileVars, runVars>>

NextLit == ExtractLiterals

SpecLit == InitLit /\ [][NextLit]_vars

-----------------------------------------------------------------------------
(* Properties of the literal walker (specification SpecLit).               *)

LitWalked == pc = "done" /\ old_func # NoFunc /\ new_func = NoFunc

\* The type tag of each literal kind.
KindTag ==
    [Str |-> "STRING", Int |-> "INT", Float |-> "FLOAT", Bool |-> "BOOL",
     Char |-> "CHAR", Byte |-> "BYTE", ByteStr |-> "BYTE_STR", CStr |-> "CSTR",
     Verbatim |-> "VERBATIM"]

\* The literal tokens that are statements of the body, in order.
StatementLits ==
    LET lits == SelectSeq(old_func.block,
                          LAMBDA s : s.stmt = "Expr" /\ s.expr.kind = "Lit")
    IN  [i \in 1..Len(lits) |-> lits[i].expr.lit]

\* C21: a literal is recorded under the tag of its kind (nine kinds, nine
\* tags); two literals of different kinds get different tags; an integer
\* keeps its base-10 digits as value, whatever radix and suffix it is
\* written with.
C21_LiteralTags ==
    (LitWalked /\ Len(StatementLits) = Len(old_func.block)) =>
        /\ Len(result.literals) = Len(StatementLits)
        /\ \A i \in 1..Len(StatementLits) :
              /\ result.literals[i].type_name = KindTag[StatementLits[i].lit]
              /\ StatementLits[i].lit = "Int" =>
                    result.literals[i].value = Digits(StatementLits[i].n, 10)
        /\ \A i, j \in 1..Len(StatementLits) :
              StatementLits[i].lit # StatementLits[j].lit =>
                  result.literals[i].type_name # result.literals[j].type_name


\* The expression of the body's only statement.
LitBodyExpr ==
    LET s == old_func.block[1]
    IN  IF s.stmt = "Local" THEN s.init[1] ELSE s.expr

IsComposite(e) == e.kind \in {"Struct", "Array", "Tuple"}

\* The synthetic literal of a composite literal.
Synthetic(e) ==
    CASE e.kind = "Struct" -> TypedLiteral("CompositeLit:" \o Last(e.path), "struct-literal")
      [] e.kind = "Array" -> TypedLiteral("CompositeLit:Array", "array-literal")
      [] e.kind = "Tuple" -> TypedLiteral("CompositeLit:Tuple", "tuple-literal")

IsSynthetic(l) == l.value \in {"struct-literal", "array-literal", "tuple-literal"}

\* The fields or elements of a composite literal.
Elements(e) == IF e.kind = "Struct" THEN Range(e.fields) ELSE Range(e.elems)

\* The direct sub-expressions of an expression, in source order.
ChildSeq(e) ==
    CASE e.kind = "Call" -> <<e.func>> \o e.args
      [] e.kind = "Struct" -> e.fields \o e.rest
      [] e.kind \in {"Array", "Tuple"} -> e.elems
      [] OTHER -> <<>>

\* The number of composite literals written in an expression.
RECURSIVE CompositeCount(_), CompositeCountAll(_)
CompositeCount(e) == (IF IsComposite(e) THEN 1 ELSE 0) + CompositeCountAll(ChildSeq(e))

CompositeCountAll(es) ==
    IF es = <<>> THEN 0 ELSE CompositeCount(Head(es)) + CompositeCountAll(Tail(es))

\* C22: every struct, array or tuple literal of the body gives exactly one
\* synthetic literal, placed before the literals of its fields or elements,
\* and every literal nested in a field or an element of a composite literal
\* is captured, nested composite literals included.
C22_CompositeLiterals ==
    (LitWalked /\ Len(old_func.block) = 1) =>
        /\ Cardinality({ i \in DOMAIN result.literals : IsSynthetic(result.literals[i]) })
              = CompositeCount(LitBodyExpr)
        /\ IsComposite(LitBodyExpr) =>
              /\ result.literals # <<>>
              /\ result.literals[1] = Synthetic(LitBodyExpr)
        /\ \A c \in SubExprs(LitBodyExpr) :
              IsComposite(c) =>
                  \A x \in UNION { SubExprs(el) : el \in Elements(c) } :
                      /\ x.kind = "Lit" => visit_lit(x.lit)[1] \in Range(result.literals)
                      /\ IsComposite(x) => Synthetic(x) \in Range(result.literals)

-----------------------------------------------------------------------------
(* The granular pass against the structural differ (specification Spec).   *)

\* C23: the names with a delta in the granular result of a file are exactly
\* the functions and methods present under the same name in both snapshots
\* with different renderings; for a file that is neither new nor deleted
\* these are the names of the report's modified functions and modified
\* methods.  A name on one side only, or with equal renderings, has no delta.
C23_GranularSetIsModified ==
    pc = "done" =>
        /\ DOMAIN file_changes = ModifiedNames("functions") \cup ModifiedNames("methods")
        /\ BothFlagsFalse =>
              DOMAIN file_changes
                  = Range(NamesOf(ModifiedOf(changes, "functions")))
                        \cup Range(NamesOf(ModifiedOf(changes, "methods")))

\* One name has a delta and another name of the file, present on one side
\* only or unchanged, has none.
C23_Witness ==
    /\ pc = "done"
    /\ BothFlagsFalse
    /\ DOMAIN file_changes # {}
    /\ \E cat \in {"functions", "methods"} :
          \E name \in Keys(old_ast, cat) \cup Keys(new_ast, cat) :
              name \notin DOMAIN file_changes


\* C24: with is_new_file and is_removed_file both set the new-file branch
\* decides: the report is one that compare_asts gives for the same snapshots
\* with is_new_file alone, it lists each declaration of new once as added,
\* and nothing of old is deleted or modified.
C24_BothFlagsNewWins ==
    (Compared /\ is_new_file /\ is_removed_file) =>
        /\ \E iter \in IterOrders(old_ast, new_ast) :
              changes = compare_asts(old_ast, new_ast, "pkg", FilePath, TRUE, FALSE, iter)
        /\ \A cat \in Categories :
              /\ Range(NamesOf(AddedOf(changes, cat))) = Keys(new_ast, cat)
              /\ Len(AddedOf(changes, cat)) = Cardinality(Keys(new_ast, cat))
              /\ ModifiedOf(changes, cat) = <<>>
              /\ DeletedOf(changes, cat) = <<>>

\* Both flags are set, old holds a declaration that new lacks and new holds
\* one that old lacks.
C24_Witness ==
    /\ pc = "compared"
    /\ is_new_file /\ is_removed_file
    /\ \E cat \in Categories : Keys(old_ast, cat) \ Keys(new_ast, cat) # {}
    /\ \E cat \in Categories : Keys(new_ast, cat) \ Keys(old_ast, cat) # {}

-----------------------------------------------------------------------------
(* The order of the steps of process_rust_files (specification SpecRun).   *)

PrfFailures ==
    {"process_rust_files.checkout_branch", "process_rust_files.checkout_commit",
     "process_rust_files.checkout_commit_alt"}

\* The step that fills branch_asts: the working tree is at the base revision,
\* the base checkout of process_rust_files has succeeded, no target checkout
\* has been attempted and no target snapshot exists; no new file is read.
OldSnapshotsStep ==
    branch_asts' # branch_asts =>
        /\ head = "base"
        /\ failed \cap PrfFailures = {}
        /\ current_asts = <<>>
        /\ all_changes = <<>>
        /\ DOMAIN branch_asts' = Range(rust_files) \ new_file_map
        /\ \A f \in DOMAIN branch_asts' :
              branch_asts'[f] = SnapshotAt("base", f)

\* The step that fills current_asts: the working tree is at the target
\* revision after a successful checkout (direct or fallback) and the old
\* snapshots are complete; no deleted file is read.
NewSnapshotsStep ==
    current_asts' # current_asts =>
        /\ head = "target"
        /\ "process_rust_files.checkout_branch" \notin failed
        /\ "process_rust_files.checkout_commit_alt" \notin failed
        /\ DOMAIN branch_asts = Range(rust_files) \ new_file_map
        /\ all_changes = <<>>
        /\ DOMAIN current_asts' = Range(rust_files) \ deleted_file_map
        /\ \A f \in DOMAIN current_asts' :
              current_asts'[f] = SnapshotAt("target", f)

\* The step that fills all_changes: every extraction has finished.
CompareStep ==
    all_changes' # all_changes =>
        /\ DOMAIN branch_asts = Range(rust_files) \ new_file_map
        /\ DOMAIN current_asts = Range(rust_files) \ deleted_file_map
        /\ head = "target"

\* A failed base checkout, or two failed target checkouts, leave the list of
\* reports empty.
FailedCheckoutGivesNoReport ==
    ("process_rust_files.checkout_branch" \in failed
        \/ "process_rust_files.checkout_commit_alt" \in failed)
    => (all_changes = <<>> /\ current_asts = <<>>)

\* C25: the steps of process_rust_files are strictly ordered: old snapshots
\* after the successful base checkout and before any target checkout, new
\* snapshots only after a successful target checkout, comparison only after
\* all extractions; new files are not read at the base revision and deleted
\* files not at the target revision; with a failed base checkout or two
\* failed target checkouts nothing is compared and the list returned is empty.
C25_StepsAreOrdered ==
    /\ [][OldSnapshotsStep /\ NewSnapshotsStep /\ CompareStep]_vars
    /\ []FailedCheckoutGivesNoReport

\* A run that compared: a new file and a deleted file among the Rust files,
\* both kinds of snapshot taken, a report returned.
C25_Witness ==
    /\ RunCompared
    /\ Range(rust_files) \cap new_file_map # {}
    /\ Range(rust_files) \cap deleted_file_map # {}
    /\ branch_asts # <<>>
    /\ current_asts # <<>>
    /\ all_changes # <<>>
    /\ "process_rust_files.checkout_commit" \in failed


\* The position of a file in the list handed to process_rust_files.
IndexOf(f) == CHOOSE i \in 1..Len(rust_files) : rust_files[i] = f

\* The report compare_asts gives for a file in step 3 (one iteration order;
\* whether a report has changes does not depend on the order).
ReportOf(f) ==
    compare_asts(old_ast_of(f), new_ast_of(f), package_name_of(f), f,
                 f \in new_file_map, f \in deleted_file_map,
                 CHOOSE iter \in IterOrders(old_ast_of(f), new_ast_of(f)) : TRUE)

\* Some one of the twelve lists of a report is non-empty.
SomeListNonEmpty(c) == ~AllListsEmpty(c)

\* C26: the list returned by process_rust_files holds at most one report per
\* input file, in the order of the input list; a file has its report exactly
\* when one of the twelve lists of that report is non-empty, so a file whose
\* snapshots do not differ is absent.
C26_OneReportPerChangedFile ==
    RunCompared =>
        /\ \A i \in 1..Len(all_changes) :
              /\ all_changes[i].module_name \in Range(rust_files)
              /\ SomeListNonEmpty(all_changes[i])
        /\ \A i, j \in 1..Len(all_changes) :
              i < j => IndexOf(all_changes[i].module_name)
                           < IndexOf(all_changes[j].module_name)
        /\ \A f \in Range(rust_files) :
              /\ Cardinality(ReportsOf(f)) <= 1
              /\ ReportsOf(f) # {} <=> SomeListNonEmpty(ReportOf(f))
              /\ (\A cat \in Categories :
                     /\ Keys(old_ast_of(f), cat) = Keys(new_ast_of(f), cat)
                     /\ \A n \in Keys(old_ast_of(f), cat) :
                           Rendered(old_ast_of(f), cat, n) = Rendered(new_ast_of(f), cat, n))
                 => ReportsOf(f) = {}

\* Both Rust files changed and were compared, and each has its report.
C26_Witness ==
    /\ RunCompared
    /\ Len(rust_files) = 2
    /\ Len(all_changes) = 2

\* Both Rust files changed, and the snapshots of the first do not differ: the
\* list holds the report of the second only.
C26_WitnessAbsent ==
    /\ RunCompared
    /\ Len(rust_files) = 2
    /\ Len(all_changes) = 1
    /\ ReportsOf(rust_files[1]) = {}

-----------------------------------------------------------------------------
(* The entries of the reports and the type-specific output files           *)
(* (specification SpecRun).                                                *)

TypeSpecificFiles ==
    {"function_changes.json", "type_changes.json", "interface_changes.json",
     "method_changes.json"}

\* The number of entries of one kind of list, over all reports.
EntryCount(Of(_, _), cat) ==
    Len(Flatten([k \in 1..Len(all_changes) |-> Of(all_changes[k], cat)]))

\* C27: every entry of an added or deleted list of a report holds two
\* strings and every entry of a modified list three, and each type-specific
\* output file holds one entry per list entry over all reports, with the
\* module, the name and the codes of that entry.
C27_EntryArity ==
    /\ \A k \in 1..Len(all_changes) : \A cat \in Categories :
          /\ \A i \in 1..Len(AddedOf(all_changes[k], cat)) :
                Len(AddedOf(all_changes[k], cat)[i]) = 2
          /\ \A i \in 1..Len(DeletedOf(all_changes[k], cat)) :
                Len(DeletedOf(all_changes[k], cat)[i]) = 2
          /\ \A i \in 1..Len(ModifiedOf(all_changes[k], cat)) :
                Len(ModifiedOf(all_changes[k], cat)[i]) = 3
    /\ \A filename \in DOMAIN outputs \cap TypeSpecificFiles :
          LET cat == OutputCategory(filename)
              out == outputs[filename]
          IN  /\ Len(out.added) = EntryCount(AddedOf, cat)
              /\ Len(out.modified) = EntryCount(ModifiedOf, cat)
              /\ Len(out.deleted) = EntryCount(DeletedOf, cat)
              /\ \A k \in 1..Len(all_changes) :
                    LET c == all_changes[k]
                    IN  /\ \A e \in Range(AddedOf(c, cat)) :
                              [module |-> c.module_name, name |-> e[1], code |-> e[2]]
                                  \in Range(out.added)
                        /\ \A e \in Range(DeletedOf(c, cat)) :
                              [module |-> c.module_name, name |-> e[1], code |-> e[2]]
                                  \in Range(out.deleted)
                        /\ \A e \in Range(ModifiedOf(c, cat)) :
                              [module |-> c.module_name, name |-> e[1],
                               oldCode |-> e[2], newCode |-> e[3]]
                                  \in Range(out.modified)

\* The output files are written for two reports that hold added, modified
\* and deleted entries between them.
C27_Witness ==
    /\ Len(all_changes) = 2
    /\ "interface_changes.json" \in DOMAIN outputs
    /\ \E cat \in Categories : EntryCount(AddedOf, cat) > 0
    /\ \E cat \in Categories : EntryCount(ModifiedOf, cat) > 0
    /\ outputs["interface_changes.json"].modified # <<>>

-----------------------------------------------------------------------------
(* The four lists of a delta (specification SpecDelta).                    *)

\* C28: no call label is both added and removed and no literal is both added
\* and removed; what is added occurs in the walk of the new body and not in
\* the walk of the old body, what is removed occurs in the old walk and not
\* in the new one; two identical bodies give four empty lists.
C28_DeltaListsDisjoint ==
    (pc = "done" /\ new_func # NoFunc) =>
        /\ Range(result.added_functions) \cap Range(result.removed_functions) = {}
        /\ Range(result.added_literals) \cap Range(result.removed_literals) = {}
        /\ Range(result.added_functions) \subseteq Range(new_calls) \ Range(old_calls)
        /\ Range(result.removed_functions) \subseteq Range(old_calls) \ Range(new_calls)
        /\ Range(result.added_literals) \subseteq Range(new_literals) \ Range(old_literals)
        /\ Range(result.removed_literals) \subseteq Range(old_literals) \ Range(new_literals)
        /\ old_func.block = new_func.block => NoOpDelta(result)

\* The two bodies share a call and a literal, and each side has a call and a
\* literal of its own: all four lists are non-empty.
C28_Witness ==
    /\ pc = "done" /\ new_func # NoFunc
    /\ Range(old_calls) \cap Range(new_calls) # {}
    /\ result.added_functions # <<>>
    /\ result.removed_functions # <<>>
    /\ result.added_literals # <<>>
    /\ result.removed_literals # <<>>

\* The bodies are identical and hold a call and a literal.
C28_WitnessIdentical ==
    /\ pc = "done" /\ new_func # NoFunc
    /\ old_func.block = new_func.block
    /\ old_calls # <<>>
    /\ old_literals # <<>>
    /\ NoOpDelta(result)

-----------------------------------------------------------------------------
(* The granular output file (specification SpecRun).                       *)

GranularFile == "function_changes_granular.json"

\* main returned after get_granular_change_for_functions.
GranularReturned ==
    /\ repo # [item |-> "None"]
    /\ pc = "exited"
    /\ exit_code = "0"
    /\ rust_files # <<>>

GranularCheckoutFailed ==
    failed \cap {"granular.checkout_branch", "granular.checkout_commit"} # {}

\* The deltas of all files between the two revisions ("{}" is the empty map).
GranularDeltas ==
    granular_changes_of(rust_files,
                        [f \in Range(rust_files) |-> SnapshotAt("base", f)],
                        [f \in Range(rust_files) |-> SnapshotAt("target", f)])

\* After the granular pass the file exists exactly when neither of its two
\* checkouts failed, and holds the deltas; before the pass it does not exist.
GranularFileWhenCheckedOut ==
    /\ GranularReturned =>
          /\ GranularFile \in DOMAIN outputs <=> ~GranularCheckoutFailed
          /\ GranularFile \in DOMAIN outputs => outputs[GranularFile] = GranularDeltas
    /\ pc # "exited" => GranularFile \notin DOMAIN outputs

\* The file is written by one step, the granular pass, and not written again.
GranularFileWrittenOnce ==
    /\ (GranularFile \in DOMAIN outputs' /\ GranularFile \notin DOMAIN outputs)
          => (pc = "granular" /\ pc' = "exited")
    /\ GranularFile \in DOMAIN outputs =>
          (GranularFile \in DOMAIN outputs' /\ outputs'[GranularFile] = outputs[GranularFile])

C29_WitnessDeltas ==
    /\ GranularReturned
    /\ GranularFile \in DOMAIN outputs
    /\ outputs[GranularFile] # <<>>

\* process_rust_files got the target revision through its fallback checkout
\* and wrote reports; the granular pass failed its only checkout of the
\* commit: structural output files and no granular file.
C29_WitnessNoFallback ==
    /\ GranularReturned
    /\ failed = {"process_rust_files.checkout_commit", "granular.checkout_commit"}
    /\ all_changes # <<>>
    /\ "all_code_changes.json" \in DOMAIN outputs
    /\ GranularFile \notin DOMAIN outputs

-----------------------------------------------------------------------------
(* Methods and their impl blocks (specification Spec).                     *)

\* The methods present on both sides whose own rendering is the same.
SameTextMethods ==
    { name \in Keys(old_ast, "methods") \cap Keys(new_ast, "methods") :
        format_node(old_ast.methods[name][2]) = format_node(new_ast.methods[name][2]) }

\* C30: a method is compared on its own detached node only: a method whose
\* own text is the same on both sides is in no modified list of the report
\* and has no delta in the granular result, whatever the impl block stored
\* with it (its header, its trait, its position) on either side.
C30_MethodComparedDetached ==
    /\ Compared =>
          \A name \in SameTextMethods :
              /\ name \notin Range(NamesOf(ModifiedOf(changes, "methods")))
              /\ BothFlagsFalse =>
                    \A cat \in Categories :
                        /\ name \notin Range(NamesOf(AddedOf(changes, cat)))
                        /\ name \notin Range(NamesOf(DeletedOf(changes, cat)))
    /\ pc = "done" => \A name \in SameTextMethods : name \notin DOMAIN file_changes

\* Point.norm has the same text on both sides, in an inherent impl on one
\* side and in a trait impl on the other, and is not reported.
C30_Witness ==
    /\ pc = "done"
    /\ BothFlagsFalse
    /\ \E name \in SameTextMethods :
          /\ old_ast.methods[name][1] # new_ast.methods[name][1]
          /\ old_ast.methods[name][1].trait_ # new_ast.methods[name][1].trait_
          /\ name \notin Range(NamesOf(ModifiedOf(changes, "methods")))
          /\ name \notin DOMAIN file_changes

=============================================================================
